---- MODULE Spec2Model ----
(***************************************************************************)
(* Verification model of the swarm orchestration core:                     *)
(*   - the shared state store (communication/core.py, CommunicationsFile), *)
(*   - the change notifier (communication/core.py, FileWatcher),           *)
(*   - the task claim coordinator (personas/matcher.py, orchestrator),     *)
(*   - the per-agent lifecycle loop (ralph/loop.py).                       *)
(* Each part has its own specification over the same variables; the parts  *)
(* a specification does not exercise keep their initial values.            *)
(***************************************************************************)
EXTENDS Integers, Sequences, FiniteSets, TLC

VARIABLES
    doc,        \* parsed content of communications.json as last fully written
    torn,       \* TRUE while a writer has truncated the file and not yet finished json.dump
    lock,       \* CommunicationsFile._lock: "free" or "held"
    wr,         \* the store call that holds the lock: operation, arguments, document to write
    clock,      \* datetime.now(), as a logical clock
    agentStatus \* Agent._status.mission of each Agent object

VARIABLES
    callbacks,  \* FileWatcher._callbacks: the registered agent names
    running,    \* FileWatcher._running
    wpc,        \* where the thread running _watch_loop is
    lastHash,   \* FileWatcher._last_hash
    curHash,    \* _watch_loop's current_hash
    data,       \* _watch_loop's data
    iterSize,   \* size of _callbacks when the for loop began iterating
    visited,    \* the entries the for loop has been through
    invoked,    \* history: the callbacks called in this dispatch
    raised,     \* history: a callback raised in this dispatch
    again,      \* history: a callback was called a second time in this dispatch
    dirty       \* history: the file's content changed since the baseline was taken

VARIABLES
    task_role,      \* Task.role of each task
    lastQuery,      \* history: the last get_available_tasks_for_role call, its result and the statuses it saw
    task_status,    \* Task.status of each task of the plan
    assigned_agent, \* Task.assigned_agent of each task
    dependencies,   \* Task.dependencies of each task
    task_lock,      \* Orchestrator._task_lock: "free" or the role of the caller holding it
    spawnPc,        \* where each caller of spawn_agent is
    spawnTask,      \* the task each caller of spawn_agent was given
    agents,         \* Orchestrator.agents: the agent ids registered
    lastClaim       \* history: the last claim_task call, its result and the tasks before it

VARIABLES
    lpc,             \* where run_agent_loop is
    loop_running,    \* RalphWiggumLoop._running
    retry_count,     \* AgentInstance.retry_count
    spawn_count,     \* AgentInstance.spawn_count
    lifecycle_state, \* AgentInstance.lifecycle_state
    process,         \* the worker process of the agent: "none", "running", "exited"
    signalled,       \* type of the breakpoint in the agent's record of the file, or "none"
    result,          \* result_type of the LoopResult that run_agent_loop returned
    errStreak        \* history: workers in a row that ended without a breakpoint

VARIABLES
    plock,      \* CommunicationsFile._lock of the instance each process has built
    pwr,        \* the store call each process has in flight
    pdone,      \* history: the call each process has finished
    resetDone   \* history: the orchestrator has reset the file

VARIABLES
    task_graph,   \* _check_circular_dependencies: task id -> set of dependency ids
    dfs_visited,  \* its set "visited"
    rec_stack,    \* its set "rec_stack"
    frames,       \* the active calls of has_cycle: task_id and the dependencies not yet iterated
    roots,        \* the task ids the outer loop has still to take, in plan order
    cycle_errors  \* the paths of the circular-dependency errors added to the result

VARIABLES
    snap,       \* a ContextSnapshot s
    snap_data,  \* the dict s.to_dict() returned
    snap_back,  \* the ContextSnapshot that from_dict made of that dict
    snapPc      \* "made", "dumped" or "restored"

VARIABLES
    defects,      \* what is wrong with the plan given to Orchestrator.start
    auto_spawn,   \* OrchestratorConfig.auto_spawn
    validation,   \* the ValidationResult of the plan
    orch_running, \* Orchestrator._running
    startPc       \* where Orchestrator.start is, or the exception it ended with

VARIABLES
    _agent_loops, \* Orchestrator._agent_loops: the agent ids, in the order of the dict
    loop_task,    \* the asyncio task of each agent's _run_agent_loop: "none", "created", "active", "done"
    _processes,   \* TerminalManager._processes: the agents that have a worker process
    stop_iter,    \* the iterator of "for ... in self._agent_loops.items()" in stop
    stopPc        \* where Orchestrator.stop is, or the exception it ended with

VARIABLES
    blocked_on, \* LoopResult.blocked_on of the last blocked breakpoint
    pr_url,     \* LoopResult.pr_url of the last pr_created breakpoint, as the number of its pull request
    pr_status,  \* the status the CI provider has for each pull request
    current_task, \* run_agent_loop's current_task, the task the next worker is spawned on
    peer_lpc    \* where the run_agent_loop of a second agent is

VARIABLES
    epic_ids,   \* Milestone.epic_ids of the milestone "M1"
    task_epic,  \* the epic whose stories hold each task
    lastCall    \* history: the last call made on the plan, its result and the statuses before it

VARIABLES
    deps_left,    \* get_dependency_order: its task_graph, whose sets the loop empties
    queue,        \* its list "queue"
    order_result, \* its list "result", as the ids of the tasks
    orderPc       \* where get_dependency_order is: "start", "loop" or "returned"

VARIABLES
    lastDone      \* history: the store call that returned last, with its arguments

VARIABLES
    signal_spawn  \* history: spawn_count of the worker that wrote the breakpoint of the record, 0 for none

VARIABLES
    _running,      \* FileWatcher._running
    _thread,       \* FileWatcher._thread: the thread start() made last, 0 for None
    thread_pc,     \* where each thread of _watch_loop is: "none", "test", "notify", "sleep", "ended"
    join_pc,       \* where stop() is: "idle", or "join" while it waits in self._thread.join
    file_version,  \* the number of writes made to the file, which its hash stands for
    _last_hash,    \* FileWatcher._last_hash, as the version it is the hash of
    current_hash,  \* the local current_hash of each thread
    dispatched     \* history: how many times each version was dispatched to the listeners

VARIABLES
    informed       \* history: _meta.last_updated of the last document each listener's callback was called with

storeVars == <<doc, torn, lock, wr, clock, agentStatus>>

procVars == <<plock, pwr, pdone, resetDone>>

loopVars == <<lpc, loop_running, retry_count, spawn_count, lifecycle_state, process,
              signalled, result, errStreak>>

taskVars == <<task_status, assigned_agent, dependencies, task_lock, spawnPc, spawnTask, agents,
              lastClaim, task_role, lastQuery>>

cycleVars == <<task_graph, dfs_visited, rec_stack, frames, roots, cycle_errors>>

\* the state of the components added after the store, the notifier, the
\* matcher, the lifecycle loop and the processes
snapVars == <<snap, snap_data, snap_back, snapPc>>

startVars == <<defects, auto_spawn, validation, orch_running, startPc>>

stopVars == <<_agent_loops, loop_task, _processes, stop_iter, stopPc>>

waitVars == <<blocked_on, pr_url, pr_status, current_task, peer_lpc>>

planVars == <<epic_ids, task_epic, lastCall>>

\* the state of the components added after the waits of the loop
orderVars == <<deps_left, queue, order_result, orderPc>>

replayVars == <<lastDone>>

signalVars == <<signal_spawn>>

pollVars == <<_running, _thread, thread_pc, join_pc, file_version, _last_hash, current_hash,
              dispatched>>

informVars == <<informed>>

lateVars == <<planVars, orderVars, replayVars, signalVars, pollVars, informVars>>

moreVars == <<cycleVars, snapVars, startVars, stopVars, waitVars, lateVars>>

elseVars == <<taskVars, loopVars, procVars, moreVars>>

watchVars == <<callbacks, running, wpc, lastHash, curHash, data, iterSize, visited,
               invoked, raised, again, dirty>>

vars == <<doc, torn, lock, wr, clock, agentStatus, callbacks, running, wpc, lastHash,
          curHash, data, iterSize, visited, invoked, raised, again, dirty,
          task_status, assigned_agent, dependencies, task_lock, spawnPc, spawnTask, agents,
          lastClaim, task_role, lastQuery, lpc, loop_running, retry_count, spawn_count, lifecycle_state,
          process, signalled, result, errStreak, plock, pwr, pdone, resetDone,
          task_graph, dfs_visited, rec_stack, frames, roots, cycle_errors,
          snap, snap_data, snap_back, snapPc,
          defects, auto_spawn, validation, orch_running, startPc,
          _agent_loops, loop_task, _processes, stop_iter, stopPc,
          blocked_on, pr_url, pr_status, current_task, peer_lpc,
          epic_ids, task_epic, lastCall, deps_left, queue, order_result, orderPc,
          lastDone, signal_spawn, _running, _thread, thread_pc, join_pc, file_version,
          _last_hash, current_hash, dispatched, informed>>

(***************************************************************************)
(* Bounds and input domains                                                *)
(***************************************************************************)
\* number of timestamped writes explored
MaxClock == 4

AgentNames == {"a", "b"}
Texts == {"q1", "q2"}
Descs == {"d1"}
Missions == {"m1"}

(***************************************************************************)
(* Shared state store: the document                                        *)
(***************************************************************************)
\* AgentStatus().to_dict(): the record of an agent that is first referred to
NewRecord == [mission |-> "", requests |-> <<>>, added |-> <<>>]

\* _ensure_file_exists: the empty document
NoRecs == [x \in {} |-> NewRecord]

EmptyDoc == [by |-> "none", at |-> 0, recs |-> NoRecs]

HasAgent(d, a) == a \in DOMAIN d.recs

\* data[a] = r
SetRec(d, a, r) ==
    [d EXCEPT !.recs = [x \in (DOMAIN d.recs) \cup {a} |-> IF x = a THEN r ELSE d.recs[x]]]

\* del data[a]
DelRec(d, a) ==
    [d EXCEPT !.recs = [x \in (DOMAIN d.recs) \ {a} |-> d.recs[x]]]

\* if a not in data: data[a] = AgentStatus().to_dict()
EnsureRec(d, a) == IF HasAgent(d, a) THEN d ELSE SetRec(d, a, NewRecord)

_update_meta(d, agent_name, t) == [d EXCEPT !.by = agent_name, !.at = t]

\* a filter that drops every request addressed to to_agent
WithoutRequest_any(reqs, to_agent, request) ==
    SelectSeq(reqs, LAMBDA req : req[1] # to_agent)

\* a removal of the first matching request only
RECURSIVE WithoutRequest_first(_, _, _)
WithoutRequest_first(reqs, to_agent, request) ==
    IF reqs = <<>> THEN <<>>
    ELSE IF Head(reqs)[1] = to_agent /\ Head(reqs)[2] = request THEN Tail(reqs)
    ELSE <<Head(reqs)>> \o WithoutRequest_first(Tail(reqs), to_agent, request)

\* the list comprehension shared by complete_request and remove_request
WithoutRequest(reqs, to_agent, request) ==
    SelectSeq(reqs, LAMBDA req : ~(req[1] = to_agent /\ req[2] = request))

update_agent(d, agent_name, status, t) ==
    _update_meta(SetRec(d, agent_name, status), agent_name, t)

update_field(d, agent_name, value, t) ==
    LET e == EnsureRec(d, agent_name)
    IN  _update_meta(SetRec(e, agent_name, [e.recs[agent_name] EXCEPT !.mission = value]),
                     agent_name, t)

add_request(d, from_agent, to_agent, request, t) ==
    LET e == EnsureRec(d, from_agent)
        r == e.recs[from_agent]
    IN  _update_meta(SetRec(e, from_agent,
                            [r EXCEPT !.requests = Append(@, <<to_agent, request>>)]),
                     from_agent, t)

\* a completion that records the delivery and leaves the request pending
complete_request_keeps(d, completing_agent, requesting_agent, original_request, description, t) ==
    LET e == EnsureRec(d, requesting_agent)
        r == e.recs[requesting_agent]
    IN  _update_meta(SetRec(e, requesting_agent,
                            [r EXCEPT !.added = Append(@, <<completing_agent, description,
                                                            original_request>>)]),
                     completing_agent, t)

\* a completion that records the delivery only when the request is pending
complete_request_if_pending(d, completing_agent, requesting_agent, original_request, description, t) ==
    LET e == EnsureRec(d, requesting_agent)
        r == e.recs[requesting_agent]
        left == WithoutRequest(r.requests, completing_agent, original_request)
    IN  _update_meta(SetRec(e, requesting_agent,
                            [r EXCEPT !.requests = left,
                                      !.added = IF left = r.requests THEN @
                                                ELSE Append(@, <<completing_agent, description,
                                                                 original_request>>)]),
                     completing_agent, t)

complete_request(d, completing_agent, requesting_agent, original_request, description, t) ==
    LET e == EnsureRec(d, requesting_agent)
        r == e.recs[requesting_agent]
    IN  _update_meta(SetRec(e, requesting_agent,
                            [r EXCEPT !.requests = WithoutRequest(@, completing_agent,
                                                                  original_request),
                                      !.added = Append(@, <<completing_agent, description,
                                                            original_request>>)]),
                     completing_agent, t)

clear_added(d, agent_name, t) ==
    IF HasAgent(d, agent_name)
    THEN _update_meta(SetRec(d, agent_name, [d.recs[agent_name] EXCEPT !.added = <<>>]),
                      agent_name, t)
    ELSE d

remove_request(d, from_agent, to_agent, request, t) ==
    IF HasAgent(d, from_agent)
    THEN _update_meta(SetRec(d, from_agent,
                             [d.recs[from_agent] EXCEPT
                                 !.requests = WithoutRequest(@, to_agent, request)]),
                      from_agent, t)
    ELSE d

remove_agent(d, agent_name) ==
    IF HasAgent(d, agent_name) THEN DelRec(d, agent_name) ELSE d

(***************************************************************************)
(* Shared state store: the calls.  A call takes the lock, reads the        *)
(* document, computes the new one and opens the file for writing (which    *)
(* truncates it); it finishes by dumping the new document and releasing    *)
(* the lock.  Readers that take the lock never see the truncated file.     *)
(***************************************************************************)
NoCall == [op |-> "none", x |-> "", y |-> "", q |-> "", d |-> ""]

Idle == [call |-> NoCall, new |-> EmptyDoc, writes |-> FALSE]

\* with self._lock: data = self._read_data(); ...; open(self.filepath, 'w')
Begin(call, new, writes, stamps) ==
    /\ lock = "free"
    /\ ~stamps \/ clock < MaxClock
    /\ lock' = "held"
    /\ wr' = [call |-> call, new |-> new, writes |-> writes]
    /\ torn' = writes
    /\ clock' = IF stamps THEN clock + 1 ELSE clock
    /\ UNCHANGED doc

\* json.dump(data, f, indent=2); the lock is released; the call returns
StoreEnd ==
    /\ lock = "held"
    /\ doc' = IF wr.writes THEN wr.new ELSE doc
    /\ torn' = FALSE
    /\ lock' = "free"
    /\ wr' = Idle
    /\ UNCHANGED <<clock, agentStatus>>

StatusOf(m) == [mission |-> m, requests |-> <<>>, added |-> <<>>]

UpdateAgent(a, m) ==
    /\ Begin([NoCall EXCEPT !.op = "update_agent", !.x = a, !.d = m],
             update_agent(doc, a, StatusOf(m), clock + 1), TRUE, TRUE)
    /\ UNCHANGED agentStatus

UpdateField(a, m) ==
    /\ Begin([NoCall EXCEPT !.op = "update_field", !.x = a, !.d = m],
             update_field(doc, a, m, clock + 1), TRUE, TRUE)
    /\ UNCHANGED agentStatus

AddRequest(a, b, q) ==
    /\ Begin([NoCall EXCEPT !.op = "add_request", !.x = a, !.y = b, !.q = q],
             add_request(doc, a, b, q, clock + 1), TRUE, TRUE)
    /\ UNCHANGED agentStatus

CompleteRequest(a, b, q, d) ==
    /\ Begin([NoCall EXCEPT !.op = "complete_request", !.x = a, !.y = b, !.q = q, !.d = d],
             complete_request(doc, a, b, q, d, clock + 1), TRUE, TRUE)
    /\ UNCHANGED agentStatus

ClearAdded(a) ==
    /\ Begin([NoCall EXCEPT !.op = "clear_added", !.x = a],
             clear_added(doc, a, clock + 1), TRUE, HasAgent(doc, a))
    /\ UNCHANGED agentStatus

RemoveRequest(a, b, q) ==
    /\ Begin([NoCall EXCEPT !.op = "remove_request", !.x = a, !.y = b, !.q = q],
             remove_request(doc, a, b, q, clock + 1), TRUE, HasAgent(doc, a))
    /\ UNCHANGED agentStatus

RemoveAgent(a) ==
    /\ Begin([NoCall EXCEPT !.op = "remove_agent", !.x = a],
             remove_agent(doc, a), HasAgent(doc, a), FALSE)
    /\ UNCHANGED agentStatus

\* Agent.set_mission: self._status.mission = mission; update_field(self.name, ...)
AgentSetMission(a, m) ==
    /\ Begin([NoCall EXCEPT !.op = "set_mission", !.x = a, !.d = m],
             update_field(doc, a, m, clock + 1), TRUE, TRUE)
    /\ agentStatus' = [agentStatus EXCEPT ![a] = m]

\* Agent.update_all: the fields given are set on self._status, which is then
\* handed whole to update_agent; its requests and added lists are the empty
\* lists the Agent object was built with
AgentUpdateAll(a, given, m) ==
    LET mission == IF given THEN m ELSE agentStatus[a]
    IN  /\ Begin([NoCall EXCEPT !.op = "update_all", !.x = a, !.d = mission],
                 update_agent(doc, a, StatusOf(mission), clock + 1), TRUE, TRUE)
        /\ agentStatus' = [agentStatus EXCEPT ![a] = mission]

StoreCall(names, texts) ==
    \/ \E a \in names, m \in Missions \cup {""} : UpdateAgent(a, m)
    \/ \E a \in names, m \in Missions : UpdateField(a, m)
    \/ \E a, b \in names, q \in texts : AddRequest(a, b, q)
    \/ \E a, b \in names, q \in texts, d \in Descs : CompleteRequest(a, b, q, d)
    \/ \E a \in names : ClearAdded(a)
    \/ \E a, b \in names, q \in texts : RemoveRequest(a, b, q)
    \/ \E a \in names : RemoveAgent(a)
    \/ \E a \in names, m \in Missions : AgentSetMission(a, m)
    \/ \E a \in names, given \in BOOLEAN, m \in Missions : AgentUpdateAll(a, given, m)

(***************************************************************************)
(* Change notifier (FileWatcher)                                           *)
(***************************************************************************)
\* hashlib.md5(content).hexdigest(): equal exactly for equal content
Hash(d) == <<d>>

\* self._last_hash = ""
NoHash == <<>>

\* get_file_hash: the fingerprint is read under the store's lock
get_file_hash == Hash(doc)

register(agent_name) ==
    /\ callbacks' = callbacks \cup {agent_name}
    /\ UNCHANGED <<running, wpc, lastHash, curHash, data, iterSize, visited, invoked,
                   raised, again, dirty>>

\* del self._callbacks[agent_name]: an entry that is registered again later is a
\* new entry, which a running iteration goes through like any other
unregister(agent_name) ==
    /\ callbacks' = callbacks \ {agent_name}
    /\ visited' = visited \ {agent_name}
    /\ UNCHANGED <<running, wpc, lastHash, curHash, data, iterSize, invoked, raised,
                   again, dirty>>

\* start(): a no-op while running, else a new thread on _watch_loop
start ==
    /\ IF running
       THEN UNCHANGED <<running, wpc>>
       ELSE /\ wpc \in {"none", "ended"}
            /\ running' = TRUE
            /\ wpc' = "baseline"
    /\ UNCHANGED <<callbacks, lastHash, curHash, data, iterSize, visited, invoked,
                   raised, again, dirty>>

\* stop(): the flag is cleared; the thread is joined
stop ==
    /\ running' = FALSE
    /\ UNCHANGED <<callbacks, wpc, lastHash, curHash, data, iterSize, visited, invoked,
                   raised, again, dirty>>

\* a thread that starts from the constructor's empty _last_hash
BaselineHash_unset == NoHash

\* the fingerprint the thread takes before the loop
BaselineHash == get_file_hash

\* self._last_hash = self.comm_file.get_file_hash(), before the loop
Baseline ==
    /\ wpc = "baseline"
    /\ lock = "free"
    /\ lastHash' = BaselineHash
    /\ wpc' = "loop"
    /\ dirty' = FALSE
    /\ UNCHANGED <<callbacks, running, curHash, data, iterSize, visited, invoked,
                   raised, again>>

\* while self._running
LoopTest ==
    /\ wpc = "loop"
    /\ wpc' = IF running THEN "poll" ELSE "ended"
    /\ UNCHANGED <<callbacks, running, lastHash, curHash, data, iterSize, visited,
                   invoked, raised, again, dirty>>

\* time.sleep(self.poll_interval), at the end of a turn and in the except clause
Sleep ==
    /\ wpc = "sleep"
    /\ wpc' = "loop"
    /\ UNCHANGED <<callbacks, running, lastHash, curHash, data, iterSize, visited,
                   invoked, raised, again, dirty>>

\* the locals of a turn of the while loop are dead once the turn is over
TurnOver ==
    /\ wpc' = "sleep"
    /\ curHash' = NoHash
    /\ data' = EmptyDoc
    /\ iterSize' = 0
    /\ visited' = {}
    /\ invoked' = {}
    /\ raised' = FALSE
    /\ again' = FALSE

\* current_hash = self.comm_file.get_file_hash(); if current_hash != self._last_hash
Poll ==
    /\ wpc = "poll"
    /\ lock = "free"
    /\ IF get_file_hash # lastHash
       THEN /\ curHash' = get_file_hash
            /\ wpc' = "read"
            /\ UNCHANGED <<data, iterSize, visited, invoked, raised, again>>
       ELSE TurnOver
    /\ UNCHANGED <<callbacks, running, lastHash, dirty>>

\* data = self.comm_file._read_data(): read without the lock; a file that a
\* writer has truncated does not parse, and the loop's except clause sleeps
Read ==
    /\ wpc = "read"
    /\ IF torn
       THEN TurnOver
       ELSE /\ data' = doc
            /\ iterSize' = Cardinality(callbacks)
            /\ wpc' = "iter"
            /\ UNCHANGED <<curHash, visited, invoked, raised, again>>
    /\ UNCHANGED <<callbacks, running, lastHash, dirty>>

\* updated_by = data.get("_meta", {}).get("last_updated_by")
updated_by == data.by

\* the for loop finds _callbacks changed in size: RuntimeError, caught by the
\* loop's except clause, which sleeps; _last_hash is left as it was
IterAbort ==
    /\ wpc = "iter"
    /\ Cardinality(callbacks) # iterSize
    /\ TurnOver
    /\ UNCHANGED <<callbacks, running, lastHash, dirty>>

\* a loop that calls every registered callback, the updater's included
Notify_everyone(agent_name) == TRUE

\* an exception that leaves the for loop and reaches the except clause of the
\* while loop
AfterCallback_escapes(outcome) == IF outcome = "raise" THEN "sleep" ELSE "iter"

\* if agent_name != updated_by: the entry of the updater is passed over
Notify(agent_name) == agent_name # updated_by

\* a callback that raises is caught by the try/except around the call, and
\* the for loop goes on
AfterCallback(outcome) == "iter"

\* one turn of the for loop: callback(updated_by, data) inside try/except
IterStep(agent_name, outcome) ==
    /\ wpc = "iter"
    /\ Cardinality(callbacks) = iterSize
    /\ agent_name \in callbacks \ visited
    /\ visited' = visited \cup {agent_name}
    /\ IF Notify(agent_name)
       THEN /\ invoked' = invoked \cup {agent_name}
            /\ again' = (again \/ agent_name \in invoked)
            /\ raised' = (raised \/ outcome = "raise")
            /\ wpc' = AfterCallback(outcome)
       ELSE /\ outcome = "return"
            /\ UNCHANGED <<invoked, again, raised, wpc>>
    /\ UNCHANGED <<callbacks, running, lastHash, curHash, data, iterSize, dirty>>

\* the for loop is through: self._last_hash = current_hash; self._last_data = data
IterDone ==
    /\ wpc = "iter"
    /\ Cardinality(callbacks) = iterSize
    /\ callbacks \ visited = {}
    /\ lastHash' = curHash
    /\ TurnOver
    /\ UNCHANGED <<callbacks, running, dirty>>

(***************************************************************************)
(* Task claiming (PersonaMatcher, Orchestrator.spawn_agent)                *)
(***************************************************************************)
Tasks == {"T1", "T2"}

\* "T9" is a dependency id that names no task of the plan
DepIds == Tasks \cup {"T9"}

Roles == {"dev", "qa"}

\* an agent that calls the matcher without going through spawn_agent
Direct == {"w1"}

\* the members of the enum plan.models.TaskStatus
TaskStatus == {"available", "claimed", "in_progress", "blocked", "pr_pending", "complete"}

\* agent_id = f"{role}-{task.id}"
agent_id(role, task) == <<role, task>>

NoClaim == [task |-> "", agent |-> <<>>, ret |-> FALSE,
            status |-> [t \in Tasks |-> "available"],
            assigned_agent |-> [t \in Tasks |-> <<>>]]

\* {t.id for t in self.plan.get_all_tasks() if t.status == TaskStatus.COMPLETE}
completed_ids(st) == {t \in Tasks : st[t] = "complete"}

\* a test that passes over the dependency ids that name no task of the plan
is_blocked_by_known(task, completed_task_ids) ==
    (dependencies[task] \cap Tasks) \ completed_task_ids

\* Task.is_blocked_by: the dependencies that are not in completed_task_ids
is_blocked_by(task, completed_task_ids) == dependencies[task] \ completed_task_ids

NoQuery == [role |-> "", ret |-> {}, status |-> [t \in Tasks |-> "available"]]

\* a selection that does not look at the status of the task
get_available_tasks_unblocked(completed_task_ids) ==
    {task \in Tasks : is_blocked_by(task, completed_task_ids) = {}}

\* Story.get_available_tasks, over the tasks of every story of the plan
get_available_tasks(completed_task_ids) ==
    {task \in Tasks : /\ task_status[task] = "available"
                      /\ is_blocked_by(task, completed_task_ids) = {}}

\* ProjectPlan.get_available_tasks_for_role
get_available_tasks_for_role(role) ==
    LET completed_task_ids == completed_ids(task_status)
    IN  {task \in get_available_tasks(completed_task_ids) : task_role[task] = role}

\* a claim that does not look at the status the task has
claim_task_ret_any_status(task) == is_blocked_by(task, completed_ids(task_status)) = {}

\* the value claim_task returns
claim_task_ret(task) ==
    /\ task_status[task] = "available"
    /\ is_blocked_by(task, completed_ids(task_status)) = {}

\* PersonaMatcher.claim_task
claim_task(task, agent) ==
    /\ IF claim_task_ret(task)
       THEN /\ task_status' = [task_status EXCEPT ![task] = "claimed"]
            /\ assigned_agent' = [assigned_agent EXCEPT ![task] = agent]
       ELSE UNCHANGED <<task_status, assigned_agent>>
    /\ lastClaim' = [task |-> task, agent |-> agent, ret |-> claim_task_ret(task),
                     status |-> task_status, assigned_agent |-> assigned_agent]
    /\ lastQuery' = NoQuery

ClaimTask(task, agent) ==
    /\ claim_task(task, agent)
    /\ UNCHANGED <<dependencies, task_role, task_lock, spawnPc, spawnTask, agents>>

\* a start that does not look at the status the task has
StartTask_unguarded(task) ==
    /\ task_status' = [task_status EXCEPT ![task] = "in_progress"]
    /\ lastClaim' = NoClaim
    /\ lastQuery' = NoQuery
    /\ UNCHANGED <<assigned_agent, dependencies, task_role, task_lock, spawnPc, spawnTask, agents>>

\* PersonaMatcher.start_task
StartTask(task) ==
    /\ task_status' = IF task_status[task] = "claimed"
                 THEN [task_status EXCEPT ![task] = "in_progress"] ELSE task_status
    /\ lastClaim' = NoClaim
    /\ lastQuery' = NoQuery
    /\ UNCHANGED <<assigned_agent, dependencies, task_role, task_lock, spawnPc, spawnTask, agents>>

\* PersonaMatcher.complete_task
CompleteTask(task) ==
    /\ task_status' = IF task_status[task] \in {"in_progress", "claimed"}
                 THEN [task_status EXCEPT ![task] = "complete"] ELSE task_status
    /\ lastClaim' = NoClaim
    /\ lastQuery' = NoQuery
    /\ UNCHANGED <<assigned_agent, dependencies, task_role, task_lock, spawnPc, spawnTask, agents>>

\* spawn_agent up to "with self._task_lock:": the caller takes the lock
SpawnEnter(role, task) ==
    /\ spawnPc[role] = "idle"
    /\ task_lock = "free"
    /\ task_lock' = role
    /\ spawnPc' = [spawnPc EXCEPT ![role] = "locked"]
    /\ spawnTask' = [spawnTask EXCEPT ![role] = task]
    /\ lastQuery' = NoQuery
    /\ UNCHANGED <<task_status, assigned_agent, dependencies, task_role, agents, lastClaim>>

\* the body of "with self._task_lock:" and the registration after it.
\* Evaluating TaskStatus.NOT_STARTED raises AttributeError when the enum has
\* no such member; the with statement releases the lock on the way out.
SpawnClaim(role) ==
    LET task == spawnTask[role]
    IN  /\ spawnPc[role] = "locked"
        /\ task_lock = role
        /\ task_lock' = "free"
        /\ IF "not_started" \notin TaskStatus
           THEN /\ spawnPc' = [spawnPc EXCEPT ![role] = "AttributeError"]
                /\ UNCHANGED <<task_status, assigned_agent, agents, lastClaim, lastQuery>>
           ELSE IF task_status[task] # "not_started"
           THEN /\ spawnPc' = [spawnPc EXCEPT ![role] = "AgentSpawnError"]
                /\ UNCHANGED <<task_status, assigned_agent, agents, lastClaim, lastQuery>>
           ELSE /\ claim_task(task, agent_id(role, task))
                /\ agents' = agents \cup {agent_id(role, task)}
                /\ spawnPc' = [spawnPc EXCEPT ![role] = "spawned"]
        /\ UNCHANGED <<dependencies, task_role, spawnTask>>

\* PersonaMatcher.get_claimable_tasks and RalphWiggumLoop._get_next_task: a
\* call of get_available_tasks_for_role, which changes nothing in the plan
GetAvailableTasksForRole(role) ==
    /\ lastQuery' = [role |-> role, ret |-> get_available_tasks_for_role(role),
                     status |-> task_status]
    /\ lastClaim' = NoClaim
    /\ UNCHANGED <<task_status, assigned_agent, dependencies, task_role, task_lock, spawnPc,
                   spawnTask, agents>>

TaskIdle ==
    /\ task_status = [t \in Tasks |-> "available"]
    /\ assigned_agent = [t \in Tasks |-> <<>>]
    /\ dependencies = [t \in Tasks |-> {}]
    /\ task_lock = "free"
    /\ spawnPc = [r \in Roles |-> "idle"]
    /\ spawnTask = [r \in Roles |-> "T1"]
    /\ agents = {}
    /\ lastClaim = NoClaim
    /\ task_role = [t \in Tasks |-> "dev"]
    /\ lastQuery = NoQuery

(***************************************************************************)
(* Lifecycle loop of one agent (RalphWiggumLoop.run_agent_loop) and the    *)
(* orchestrator's handling of its result (Orchestrator._run_agent_loop)    *)
(***************************************************************************)
\* the retry budget of the loop
max_retries == 3

\* largest spawn_count explored
MaxSpawns == 5

\* the breakpoint types a worker may write; "other" is any unknown type
BreakpointTypes == {"task_complete", "blocked", "pr_created", "other"}

\* AgentInstance.increment_spawn
increment_spawn ==
    /\ spawn_count' = spawn_count + 1
    /\ retry_count' = 0

\* an increment_retry that leaves the count as it is
increment_retry_skipped == retry_count' = retry_count

\* AgentInstance.increment_retry
increment_retry == retry_count' = retry_count + 1

\* Orchestrator._run_agent_loop: the lifecycle state after the result is handled
HandleResult(result_type, state) ==
    CASE result_type = "task_complete" -> "complete"
      [] result_type = "max_retries" -> "failed"
      [] result_type = "error" -> "failed"
      [] OTHER -> state

\* return from run_agent_loop: the finally clause terminates the worker, and
\* the orchestrator handles the result
Return(result_type, state) ==
    /\ lpc' = "done"
    /\ result' = result_type
    /\ process' = "none"
    /\ lifecycle_state' = HandleResult(result_type, state)

\* self._running = True; current_task = task; subscribe
RunAgentLoop ==
    /\ lpc = "idle"
    /\ lpc' = "top"
    /\ loop_running' = TRUE
    /\ UNCHANGED <<retry_count, spawn_count, lifecycle_state, process, signalled, result,
                   errStreak>>

\* the test of the while loop, then either snapshot, spawn and
\* increment_spawn, or the return of MAX_RETRIES after the loop
LoopTop ==
    /\ lpc = "top"
    /\ IF loop_running /\ retry_count < max_retries
       THEN /\ spawn_count < MaxSpawns
            /\ increment_spawn
            /\ process' = "running"
            /\ lpc' = "wait"
            /\ UNCHANGED <<lifecycle_state, result>>
       ELSE /\ Return("max_retries", lifecycle_state)
            /\ UNCHANGED <<retry_count, spawn_count>>
    /\ UNCHANGED <<loop_running, signalled, errStreak>>

\* _breakpoint_to_result
_breakpoint_to_result(bp_type) ==
    IF bp_type \in {"task_complete", "blocked", "pr_created"} THEN bp_type ELSE "error"

\* what _wait_for_breakpoint returns, or "waiting" while it sleeps
_wait_for_breakpoint ==
    IF loop_running /\ process = "running"
    THEN IF signalled # "none" THEN _breakpoint_to_result(signalled) ELSE "waiting"
    ELSE IF ~loop_running THEN "shutdown"
    ELSE IF signalled # "none" THEN _breakpoint_to_result(signalled)
    ELSE "error"

\* _wait_for_breakpoint returns and the result is handled (step 5 of the loop)
Breakpoint(next_task) ==
    LET r == _wait_for_breakpoint
    IN  /\ lpc = "wait"
        /\ r # "waiting"
        /\ errStreak' = IF r = "error" /\ signalled = "none" THEN errStreak + 1 ELSE 0
        /\ CASE r = "task_complete" ->
                  IF next_task
                  THEN /\ lifecycle_state' = "working"
                       /\ lpc' = "top"
                       /\ UNCHANGED <<retry_count, process, result>>
                  ELSE /\ Return(r, "complete")
                       /\ UNCHANGED retry_count
             [] r = "blocked" ->
                  /\ lifecycle_state' = "blocked"
                  /\ process' = "none"
                  /\ lpc' = "unblock"
                  /\ UNCHANGED <<retry_count, result>>
             [] r = "pr_created" ->
                  /\ lifecycle_state' = "pr_pending"
                  /\ process' = "none"
                  /\ lpc' = "pr"
                  /\ UNCHANGED <<retry_count, result>>
             [] r = "error" ->
                  /\ increment_retry
                  /\ process' = "none"
                  /\ lpc' = "top"
                  /\ UNCHANGED <<lifecycle_state, result>>
             [] OTHER ->
                  /\ Return(r, lifecycle_state)
                  /\ UNCHANGED retry_count
        /\ UNCHANGED <<loop_running, spawn_count, signalled>>

\* one turn of _wait_for_unblock, or its return of False and the return of the
\* BLOCKED result
Unblock(outcome) ==
    /\ lpc = "unblock"
    /\ IF loop_running /\ retry_count < max_retries
       THEN IF outcome = "resolved"
            THEN /\ lifecycle_state' = "idle"
                 /\ lpc' = "top"
                 /\ UNCHANGED <<retry_count, process, result>>
            ELSE /\ increment_retry
                 /\ UNCHANGED <<lpc, lifecycle_state, process, result>>
       ELSE /\ outcome = "timeout"
            /\ Return("blocked", lifecycle_state)
            /\ UNCHANGED retry_count
    /\ UNCHANGED <<loop_running, spawn_count, signalled, errStreak>>

\* _wait_for_pr_merge returns, then the next task or the return
PrMerge(merged, next_task) ==
    /\ lpc = "pr"
    /\ IF merged /\ next_task
       THEN /\ lifecycle_state' = "working"
            /\ lpc' = "top"
            /\ UNCHANGED <<process, result>>
       ELSE /\ Return("pr_created", IF merged THEN "complete" ELSE lifecycle_state)
    /\ UNCHANGED <<loop_running, retry_count, spawn_count, signalled, errStreak>>

\* RalphWiggumLoop.stop
LoopStop ==
    /\ loop_running
    /\ loop_running' = FALSE
    /\ UNCHANGED <<lpc, retry_count, spawn_count, lifecycle_state, process, signalled,
                   result, errStreak>>

\* the worker writes lifecycle_state and breakpoint into its record of the file
WorkerSignal(bp_type) ==
    /\ process = "running"
    /\ signalled' = bp_type
    /\ UNCHANGED <<lpc, loop_running, retry_count, spawn_count, lifecycle_state, process,
                   result, errStreak>>

\* the worker process ends
WorkerExit ==
    /\ process = "running"
    /\ process' = "exited"
    /\ UNCHANGED <<lpc, loop_running, retry_count, spawn_count, lifecycle_state, signalled,
                   result, errStreak>>

LoopIdle ==
    /\ lpc = "idle"
    /\ loop_running = FALSE
    /\ retry_count = 0
    /\ spawn_count = 1
    /\ lifecycle_state = "idle"
    /\ process = "none"
    /\ signalled = "none"
    /\ result = "none"
    /\ errStreak = 0

(***************************************************************************)
(* Processes that share the file.  Each process (agent_cli.run_agent, the  *)
(* orchestrator) builds its own CommunicationsFile, whose threading.Lock   *)
(* excludes the threads of that process only; the orchestrator resets the  *)
(* file with Path.write_text, without any lock.                            *)
(***************************************************************************)
Procs == {"p1", "p2"}

\* the mutations a process may issue
Calls ==
    {[NoCall EXCEPT !.op = "update_field", !.x = a, !.d = "m1"] : a \in AgentNames}
    \cup {[NoCall EXCEPT !.op = "add_request", !.x = "a", !.y = "b", !.q = "q1"]}
    \cup {[NoCall EXCEPT !.op = "complete_request", !.x = "b", !.y = "a", !.q = "q1",
                           !.d = "d1"]}
    \cup {[NoCall EXCEPT !.op = "clear_added", !.x = "a"]}
    \cup {[NoCall EXCEPT !.op = "remove_request", !.x = "a", !.y = "b", !.q = "q1"]}
    \cup {[NoCall EXCEPT !.op = "remove_agent", !.x = a] : a \in AgentNames}

ResetCall == [NoCall EXCEPT !.op = "_reset_communications"]

\* Orchestrator._reset_communications: the document it writes
_reset_communications(t) == [by |-> "orchestrator", at |-> t, recs |-> NoRecs]

\* the document a call leaves when it runs on document d at time t
ApplyCall(d, c, t) ==
    CASE c.op = "update_field" -> update_field(d, c.x, c.d, t)
      [] c.op = "add_request" -> add_request(d, c.x, c.y, c.q, t)
      [] c.op = "complete_request" -> complete_request(d, c.x, c.y, c.q, c.d, t)
      [] c.op = "clear_added" -> clear_added(d, c.x, t)
      [] c.op = "remove_request" -> remove_request(d, c.x, c.y, c.q, t)
      [] c.op = "remove_agent" -> remove_agent(d, c.x)
      [] c.op = "_reset_communications" -> _reset_communications(t)
      [] OTHER -> d

\* a process enters a store call: it takes the lock of its own instance and
\* reads the file (json.load raises on a truncated file), computes the new
\* document and opens the file for writing
ProcBegin(p, c) ==
    /\ plock[p] = "free"
    /\ pdone[p] = NoCall
    /\ IF torn
       THEN /\ pdone' = [pdone EXCEPT ![p] = [NoCall EXCEPT !.op = "JSONDecodeError"]]
            /\ UNCHANGED <<plock, pwr, torn, clock>>
       ELSE /\ plock' = [plock EXCEPT ![p] = "held"]
            /\ pwr' = [pwr EXCEPT ![p] =
                          [call |-> c, new |-> ApplyCall(doc, c, clock + 1),
                           writes |-> (c.op = "remove_agent" => HasAgent(doc, c.x))]]
            /\ torn' = (torn \/ (c.op = "remove_agent" => HasAgent(doc, c.x)))
            /\ clock' = clock + 1
            /\ UNCHANGED pdone
    /\ UNCHANGED <<doc, lock, wr, agentStatus, resetDone>>

\* json.dump, release of the lock, return
ProcEnd(p) ==
    /\ plock[p] = "held"
    /\ doc' = IF pwr[p].writes THEN pwr[p].new ELSE doc
    /\ torn' = FALSE
    /\ plock' = [plock EXCEPT ![p] = "free"]
    /\ pdone' = [pdone EXCEPT ![p] = pwr[p].call]
    /\ pwr' = [pwr EXCEPT ![p] = Idle]
    /\ UNCHANGED <<lock, wr, clock, agentStatus, resetDone>>

\* comm_path.write_text(json.dumps(initial, indent=2))
Reset ==
    /\ ~resetDone
    /\ resetDone' = TRUE
    /\ doc' = _reset_communications(clock + 1)
    /\ clock' = clock + 1
    /\ torn' = FALSE
    /\ UNCHANGED <<lock, wr, agentStatus, plock, pwr, pdone>>

ProcIdle ==
    /\ plock = [p \in Procs |-> "free"]
    /\ pwr = [p \in Procs |-> Idle]
    /\ pdone = [p \in Procs |-> NoCall]
    /\ resetDone = FALSE

(***************************************************************************)
(* Cycle check of the plan validator                                       *)
(* (PlanValidator._check_circular_dependencies)                            *)
(***************************************************************************)
\* the task ids of the plan, in the order get_all_tasks returns them
PlanOrder == <<"A", "B", "C">>

GraphIds == {PlanOrder[i] : i \in DOMAIN PlanOrder}

\* "Z" is a dependency id that names no task of the plan
GraphDeps == GraphIds \cup {"Z"}

\* task_graph.get(task_id, set())
graph_get(task_id) == IF task_id \in DOMAIN task_graph THEN task_graph[task_id] ELSE {}

\* path + [task_id] of the innermost call: the ids of the active calls
PathOf(fs) == [i \in DOMAIN fs |-> fs[i].task_id]

\* entry of has_cycle(task_id, path)
has_cycle_enter(task_id) ==
    /\ dfs_visited' = dfs_visited \cup {task_id}
    /\ rec_stack' = rec_stack \cup {task_id}
    /\ frames' = Append(frames, [task_id |-> task_id, left |-> graph_get(task_id)])

\* one turn of "for task_id in task_graph": has_cycle is called on a task
\* not yet visited
CheckRoot ==
    /\ frames = <<>>
    /\ roots # <<>>
    /\ roots' = Tail(roots)
    /\ IF Head(roots) \notin dfs_visited
       THEN has_cycle_enter(Head(roots))
       ELSE UNCHANGED <<dfs_visited, rec_stack, frames>>
    /\ UNCHANGED <<task_graph, cycle_errors>>

\* one turn of "for dep_id in task_graph.get(task_id, set())", a set taken in
\* any order. A dependency met on the stack makes every active call return
\* the path, none of them reaching rec_stack.remove, and the outer loop adds
\* the error.
HasCycleDep ==
    /\ frames # <<>>
    /\ LET top == frames[Len(frames)]
       IN  \E dep_id \in top.left :
              LET rest == [frames EXCEPT ![Len(frames)].left = top.left \ {dep_id}]
              IN  IF dep_id \notin dfs_visited
                  THEN /\ dfs_visited' = dfs_visited \cup {dep_id}
                       /\ rec_stack' = rec_stack \cup {dep_id}
                       /\ frames' = Append(rest, [task_id |-> dep_id,
                                                  left |-> graph_get(dep_id)])
                       /\ UNCHANGED cycle_errors
                  ELSE IF dep_id \in rec_stack
                  THEN /\ cycle_errors' = cycle_errors \cup {Append(PathOf(frames), dep_id)}
                       /\ frames' = <<>>
                       /\ UNCHANGED <<dfs_visited, rec_stack>>
                  ELSE /\ frames' = rest
                       /\ UNCHANGED <<dfs_visited, rec_stack, cycle_errors>>
    /\ UNCHANGED <<task_graph, roots>>

\* the end of the for loop of has_cycle: rec_stack.remove(task_id); return None
HasCycleReturn ==
    /\ frames # <<>>
    /\ frames[Len(frames)].left = {}
    /\ rec_stack' = rec_stack \ {frames[Len(frames)].task_id}
    /\ frames' = SubSeq(frames, 1, Len(frames) - 1)
    /\ UNCHANGED <<task_graph, dfs_visited, roots, cycle_errors>>

CycleIdle ==
    /\ task_graph = [t \in GraphIds |-> {}]
    /\ dfs_visited = {}
    /\ rec_stack = {}
    /\ frames = <<>>
    /\ roots = <<>>
    /\ cycle_errors = {}

(***************************************************************************)
(* Context snapshot of an agent (ContextSnapshot.to_dict / from_dict)      *)
(***************************************************************************)
\* a datetime is a second, a microsecond and a zone; "naive" is tzinfo None
Seconds == {0, 30}

Microseconds == {0, 5}

Zones == {"naive", "+00:00", "+01:00"}

Datetimes == [second : Seconds, microsecond : Microseconds, tzinfo : Zones]

\* the two digits of a second and the six digits of a microsecond
SecondText(n) == IF n = 0 THEN "00" ELSE "30"

MicrosecondText(n) == IF n = 0 THEN "000000" ELSE "000005"

\* a timestamp text that leaves the microseconds out
isoformat_seconds(ts) ==
    <<SecondText(ts.second)>>
        \o (IF ts.tzinfo # "naive" THEN <<ts.tzinfo>> ELSE <<>>)

\* datetime.isoformat: the text, as its parts after the date and the hour.
\* The microseconds are left out when they are 0 and the offset when the
\* datetime is naive.
isoformat(ts) ==
    <<SecondText(ts.second)>>
        \o (IF ts.microsecond # 0 THEN <<MicrosecondText(ts.microsecond)>> ELSE <<>>)
        \o (IF ts.tzinfo # "naive" THEN <<ts.tzinfo>> ELSE <<>>)

\* datetime.fromisoformat: microseconds that are not in the text are 0, and a
\* text without offset gives a naive datetime
fromisoformat(text) ==
    LET rest == Tail(text)
        hasMicro == rest # <<>> /\ Head(rest) \in {MicrosecondText(m) : m \in Microseconds}
        last == text[Len(text)]
    IN  [second |-> CHOOSE n \in Seconds : SecondText(n) = Head(text),
         microsecond |-> IF hasMicro
                         THEN CHOOSE m \in Microseconds : MicrosecondText(m) = Head(rest)
                         ELSE 0,
         tzinfo |-> IF last \in Zones THEN last ELSE "naive"]

\* None is the empty tuple and a value v that is there is <<v>>
None == <<>>

Some(v) == <<v>>

\* values of the fields: task ids, requests and deliveries, error texts
SnapTasks == {None, Some("T1")}

SnapStatuses == {None, Some("in_progress")}

SnapLists == {<<>>, <<"T1">>, <<"T1", "T2">>}

SnapRequests == {<<>>, <<[to |-> "qa", request |-> "q1"]>>}

SnapErrors == {"", "boom"}

SpawnNumbers == {0, 1, 2}

RetryCounts == {0, 1}

ContextSnapshots ==
    [agent_id : {"dev-T1"}, spawn_number : SpawnNumbers, timestamp : Datetimes,
     current_task_id : SnapTasks, current_task_description : SnapTasks,
     task_status : SnapStatuses, completed_work : {"done"}, remaining_work : {""},
     branch : {"agent/dev-T1"}, recent_commits : {<<"c1">>}, uncommitted_files : {<<>>},
     completed_dependencies : {<<>>}, pending_dependencies : SnapLists,
     breakpoint_type : {"blocked"}, breakpoint_reason : {""}, blocked_on : SnapLists,
     pending_requests : SnapRequests, recent_deliveries : {<<>>},
     retry_count : RetryCounts, previous_error : SnapErrors]

\* ContextSnapshot.to_dict
to_dict(self) ==
    [agent_id |-> self.agent_id,
     spawn_number |-> self.spawn_number,
     timestamp |-> isoformat(self.timestamp),
     current_task_id |-> self.current_task_id,
     current_task_description |-> self.current_task_description,
     task_status |-> self.task_status,
     completed_work |-> self.completed_work,
     remaining_work |-> self.remaining_work,
     branch |-> self.branch,
     recent_commits |-> self.recent_commits,
     uncommitted_files |-> self.uncommitted_files,
     completed_dependencies |-> self.completed_dependencies,
     pending_dependencies |-> self.pending_dependencies,
     breakpoint_type |-> self.breakpoint_type,
     breakpoint_reason |-> self.breakpoint_reason,
     blocked_on |-> self.blocked_on,
     pending_requests |-> self.pending_requests,
     recent_deliveries |-> self.recent_deliveries,
     retry_count |-> self.retry_count,
     previous_error |-> self.previous_error]

\* dict.get(key, default)
dict_get(dict, key, default) == IF key \in DOMAIN dict THEN dict[key] ELSE default

\* ContextSnapshot.from_dict, on a dict that has a timestamp text (without
\* one the timestamp is datetime.now())
from_dict(dict) ==
    [agent_id |-> dict_get(dict, "agent_id", ""),
     spawn_number |-> dict_get(dict, "spawn_number", 1),
     timestamp |-> fromisoformat(dict["timestamp"]),
     current_task_id |-> dict_get(dict, "current_task_id", None),
     current_task_description |-> dict_get(dict, "current_task_description", None),
     task_status |-> dict_get(dict, "task_status", None),
     completed_work |-> dict_get(dict, "completed_work", ""),
     remaining_work |-> dict_get(dict, "remaining_work", ""),
     branch |-> dict_get(dict, "branch", ""),
     recent_commits |-> dict_get(dict, "recent_commits", <<>>),
     uncommitted_files |-> dict_get(dict, "uncommitted_files", <<>>),
     completed_dependencies |-> dict_get(dict, "completed_dependencies", <<>>),
     pending_dependencies |-> dict_get(dict, "pending_dependencies", <<>>),
     breakpoint_type |-> dict_get(dict, "breakpoint_type", ""),
     breakpoint_reason |-> dict_get(dict, "breakpoint_reason", ""),
     blocked_on |-> dict_get(dict, "blocked_on", <<>>),
     pending_requests |-> dict_get(dict, "pending_requests", <<>>),
     recent_deliveries |-> dict_get(dict, "recent_deliveries", <<>>),
     retry_count |-> dict_get(dict, "retry_count", 0),
     previous_error |-> dict_get(dict, "previous_error", "")]

NoDict == <<>>

NoSnapshot == [agent_id |-> ""]

\* data = s.to_dict()
ToDict ==
    /\ snapPc = "made"
    /\ snap_data' = to_dict(snap)
    /\ snapPc' = "dumped"
    /\ UNCHANGED <<snap, snap_back>>

\* ContextSnapshot.from_dict(data)
FromDict ==
    /\ snapPc = "dumped"
    /\ snap_back' = from_dict(snap_data)
    /\ snapPc' = "restored"
    /\ UNCHANGED <<snap, snap_data>>

SnapIdle ==
    /\ snap = NoSnapshot
    /\ snap_data = NoDict
    /\ snap_back = NoSnapshot
    /\ snapPc = "none"

(***************************************************************************)
(* Start of the orchestrator (Orchestrator.start) and validation of the    *)
(* plan (PlanValidator.validate)                                           *)
(***************************************************************************)
\* what a plan can have wrong, one kind for each finding of the validator
Defects == {"task_dependency", "story_dependency", "story_blocks", "epic_dependency",
            "milestone_epic", "task_role", "acceptance_criteria", "test_scenario",
            "circular_dependency"}

\* ValidationResult()
NewResult == [is_valid |-> TRUE, errors |-> <<>>, warnings |-> <<>>]

\* an add_warning that also marks the result invalid
add_warning_invalid(res, finding) ==
    [res EXCEPT !.warnings = Append(@, finding), !.is_valid = FALSE]

\* ValidationResult.add_error
add_error(res, finding) ==
    [res EXCEPT !.errors = Append(@, finding), !.is_valid = FALSE]

\* ValidationResult.add_warning
add_warning(res, finding) == [res EXCEPT !.warnings = Append(@, finding)]

_validate_task_dependencies(plan, res) ==
    IF "task_dependency" \in plan THEN add_error(res, "task_dependency") ELSE res

_validate_story_dependencies(plan, res) ==
    LET r1 == IF "story_dependency" \in plan THEN add_error(res, "story_dependency") ELSE res
    IN  IF "story_blocks" \in plan THEN add_warning(r1, "story_blocks") ELSE r1

_validate_epic_dependencies(plan, res) ==
    IF "epic_dependency" \in plan THEN add_error(res, "epic_dependency") ELSE res

_validate_milestone_epics(plan, res) ==
    IF "milestone_epic" \in plan THEN add_error(res, "milestone_epic") ELSE res

_validate_task_roles(plan, res) ==
    IF "task_role" \in plan THEN add_warning(res, "task_role") ELSE res

_validate_acceptance_criteria(plan, res) ==
    LET r1 == IF "acceptance_criteria" \in plan
              THEN add_warning(res, "acceptance_criteria") ELSE res
    IN  IF "test_scenario" \in plan THEN add_warning(r1, "test_scenario") ELSE r1

_check_circular_dependencies(plan, res) ==
    IF "circular_dependency" \in plan THEN add_error(res, "circular_dependency") ELSE res

\* PlanValidator.validate
validate(plan) ==
    _check_circular_dependencies(plan,
        _validate_acceptance_criteria(plan,
            _validate_task_roles(plan,
                _validate_milestone_epics(plan,
                    _validate_epic_dependencies(plan,
                        _validate_story_dependencies(plan,
                            _validate_task_dependencies(plan, NewResult)))))))

\* start up to the test of result.is_valid. "; ".join(result.errors) joins
\* ValidationError objects, which raises TypeError before PlanValidationError
\* is built.
StartValidate ==
    /\ startPc = "idle"
    /\ validation' = validate(defects)
    /\ startPc' = IF validate(defects).is_valid THEN "valid"
                  ELSE IF validate(defects).errors # <<>> THEN "TypeError"
                  ELSE "PlanValidationError"
    /\ UNCHANGED <<defects, auto_spawn, orch_running>>

\* self.persona_matcher = PersonaMatcher(self.plan); self._reset_communications()
StartReset ==
    /\ startPc = "valid"
    /\ doc' = _reset_communications(clock + 1)
    /\ clock' = clock + 1
    /\ torn' = FALSE
    /\ startPc' = "reset"
    /\ UNCHANGED <<lock, wr, agentStatus, defects, auto_spawn, validation, orch_running>>

\* self._running = True
StartRunning ==
    /\ startPc = "reset"
    /\ orch_running' = TRUE
    /\ startPc' = "started"
    /\ UNCHANGED <<defects, auto_spawn, validation>>

\* the end of start: _spawn_initial_agents when auto_spawn is set. spawn_agent
\* is called for the first persona that has a claimable task, and start ends
\* with what spawn_agent raises.
StartSpawn(claimable) ==
    /\ startPc = "started"
    /\ startPc' = IF auto_spawn /\ claimable
                  THEN IF "not_started" \notin TaskStatus THEN "AttributeError"
                       ELSE "AgentSpawnError"
                  ELSE "returned"
    /\ UNCHANGED <<defects, auto_spawn, validation, orch_running>>

StartIdle ==
    /\ defects = {}
    /\ auto_spawn = TRUE
    /\ validation = NewResult
    /\ orch_running = FALSE
    /\ startPc = "none"

(***************************************************************************)
(* Stop of the orchestrator (Orchestrator.stop) with the lifecycle loops   *)
(* it has started (Orchestrator._run_agent_loop)                           *)
(***************************************************************************)
LoopAgents == {"dev-T1", "qa-T2", "ops-T3"}

\* the dicts of agent ids: the sequences without repetition
LoopDicts ==
    UNION {{d \in [1..n -> LoopAgents] : \A i, j \in 1..n : i # j => d[i] # d[j]} :
              n \in 0..Cardinality(LoopAgents)}

\* del dict[key], for a dict kept as the sequence of its keys
DictDel(dict, key) == SelectSeq(dict, LAMBDA k : k # key)

NoIter == [used |-> 0, pos |-> 0, cur |-> ""]

\* the event loop runs the tasks one at a time: another task runs only when
\* stop is not running or is waiting at "await loop_task"
Yielded == stopPc \notin {"next", "terminate"}

\* the event loop runs a created task for the first time: _run_agent_loop
\* enters its try statement and run_agent_loop starts
LoopTaskStart(a) ==
    /\ Yielded
    /\ loop_task[a] = "created"
    /\ stop_iter.cur # a
    /\ loop_task' = [loop_task EXCEPT ![a] = "active"]
    /\ UNCHANGED <<_agent_loops, _processes, stop_iter, stopPc, orch_running>>

\* run_agent_loop spawns a worker for the agent
LoopTaskSpawn(a) ==
    /\ Yielded
    /\ loop_task[a] = "active"
    /\ stop_iter.cur # a
    /\ a \notin _processes
    /\ _processes' = _processes \cup {a}
    /\ UNCHANGED <<_agent_loops, loop_task, stop_iter, stopPc, orch_running>>

\* the finally clauses an active task runs when it ends: run_agent_loop
\* terminates the worker and _run_agent_loop deletes its entry of _agent_loops
loop_task_end(a) ==
    /\ _processes' = _processes \ {a}
    /\ _agent_loops' = DictDel(_agent_loops, a)
    /\ loop_task' = [loop_task EXCEPT ![a] = "done"]

\* run_agent_loop returns by itself
LoopTaskReturn(a) ==
    /\ Yielded
    /\ loop_task[a] = "active"
    /\ stop_iter.cur # a
    /\ loop_task_end(a)
    /\ UNCHANGED <<stop_iter, stopPc, orch_running>>

\* stop: self._running = False, and the for statement makes its iterator
StopBegin ==
    /\ stopPc = "idle"
    /\ orch_running' = FALSE
    /\ stop_iter' = [used |-> Len(_agent_loops), pos |-> 0, cur |-> ""]
    /\ stopPc' = "next"
    /\ UNCHANGED <<_agent_loops, loop_task, _processes>>

\* the for statement asks its iterator for the next item, which raises
\* RuntimeError when the size of the dict is no longer what it was, and
\* loop_task.cancel() is called on the item
StopNext ==
    /\ stopPc = "next"
    /\ IF Len(_agent_loops) # stop_iter.used
       THEN /\ stopPc' = "RuntimeError"
            /\ UNCHANGED stop_iter
       ELSE IF stop_iter.pos >= Len(_agent_loops)
       THEN /\ stopPc' = "terminate"
            /\ UNCHANGED stop_iter
       ELSE /\ stopPc' = "await"
            /\ stop_iter' = [stop_iter EXCEPT !.pos = @ + 1,
                                              !.cur = _agent_loops[stop_iter.pos + 1]]
    /\ UNCHANGED <<_agent_loops, loop_task, _processes, orch_running>>

\* await loop_task: CancelledError is thrown into the task. A task that has
\* not run yet ends without entering its try statement; an active one runs
\* its finally clauses; awaiting a task that is done returns at once.
StopAwait ==
    /\ stopPc = "await"
    /\ LET a == stop_iter.cur
       IN  CASE loop_task[a] = "active" -> loop_task_end(a)
             [] loop_task[a] = "created" ->
                  /\ loop_task' = [loop_task EXCEPT ![a] = "done"]
                  /\ UNCHANGED <<_agent_loops, _processes>>
             [] OTHER -> UNCHANGED <<_agent_loops, loop_task, _processes>>
    /\ stop_iter' = [stop_iter EXCEPT !.cur = ""]
    /\ stopPc' = "next"
    /\ UNCHANGED orch_running

\* self.terminal_manager.terminate_all()
StopTerminate ==
    /\ stopPc = "terminate"
    /\ _processes' = {}
    /\ stopPc' = "stopped"
    /\ UNCHANGED <<_agent_loops, loop_task, stop_iter, orch_running>>

StopIdle ==
    /\ _agent_loops = <<>>
    /\ loop_task = [a \in LoopAgents |-> "none"]
    /\ _processes = {}
    /\ stop_iter = NoIter
    /\ stopPc = "none"

(***************************************************************************)
(* The waits of the lifecycle loop after a blocked and after a pr_created  *)
(* breakpoint (RalphWiggumLoop._wait_for_unblock, _wait_for_pr_merge)      *)
(***************************************************************************)
\* the pull requests the CI provider may know
PrNumbers == {1, 2}

\* _wait_for_pr_merge passes pr_number=1 whatever the url is
WatchedPr == 1

\* the ids a worker names in blocked_on: a task of the plan and an id that
\* names no task
BlockerIds == {"T2", "T9"}

\* the role of the agent whose loop is run
LoopRole == "dev"

\* self.plan.get_task_by_id(task_id) is None for an id that names no task
get_task_by_id(task_id) == IF task_id \in Tasks THEN Some(task_id) ELSE None

\* RalphWiggumLoop._are_blockers_resolved
_are_blockers_resolved(ids) ==
    \A task_id \in ids :
        ~(get_task_by_id(task_id) # None /\ task_status[task_id] # "complete")

\* the agent whose loop is run, and the task run_agent_loop is called with
LoopAgent == agent_id(LoopRole, "T1")

\* the tasks in the order the plan lists them
TaskOrder == <<"T1", "T2">>

\* available[0] of a list that is in the order of the plan
FirstOf(available) ==
    LET i == CHOOSE i \in 1..Len(TaskOrder) :
                 /\ TaskOrder[i] \in available
                 /\ \A j \in 1..(i - 1) : TaskOrder[j] \notin available
    IN  TaskOrder[i]

\* RalphWiggumLoop._get_next_task
_get_next_task ==
    LET available == get_available_tasks_for_role(LoopRole)
    IN  IF available # {} THEN Some(FirstOf(available)) ELSE None

\* step 5 of the loop with the fields of the breakpoint the worker wrote:
\* result.blocked_on and result.pr_url
BreakpointOf(ids, number) ==
    /\ Breakpoint(_get_next_task # None)
    /\ current_task' = IF _wait_for_breakpoint = "task_complete" /\ _get_next_task # None
                       THEN _get_next_task[1] ELSE current_task
    /\ IF _wait_for_breakpoint = "blocked"
       THEN blocked_on' = ids
       ELSE ids = {} /\ UNCHANGED blocked_on
    /\ IF _wait_for_breakpoint = "pr_created"
       THEN pr_url' = number
       ELSE number = WatchedPr /\ UNCHANGED pr_url
    /\ UNCHANGED <<pr_status, peer_lpc>>

\* one turn of _wait_for_unblock: the blockers are resolved, at the top of
\* the turn or after a CI event, or the wait for an event times out
WaitForUnblock ==
    /\ Unblock(IF loop_running /\ retry_count < max_retries
                  /\ _are_blockers_resolved(blocked_on)
               THEN "resolved" ELSE "timeout")
    /\ UNCHANGED waitVars

\* CIProvider.wait_for_pr_merge(pr_number=1, timeout=600) ends and the loop
\* goes on: the pull request it polls is merged, is closed (RuntimeError), is
\* still open at the timeout (TimeoutError), or is not known to the provider
\* (the ValueError of get_pr_status, which _wait_for_pr_merge does not catch
\* and which ends run_agent_loop)
WaitForPrMerge ==
    /\ lpc = "pr"
    /\ IF pr_status[WatchedPr] = "unknown"
       THEN /\ lpc' = "done"
            /\ result' = "ValueError"
            /\ process' = "none"
            /\ lifecycle_state' = "failed"
            /\ UNCHANGED <<loop_running, retry_count, spawn_count, signalled, errStreak>>
       ELSE PrMerge(pr_status[WatchedPr] = "merged", _get_next_task # None)
    /\ current_task' = IF pr_status[WatchedPr] = "merged" /\ _get_next_task # None
                       THEN _get_next_task[1] ELSE current_task
    /\ UNCHANGED <<blocked_on, pr_url, pr_status, peer_lpc>>

\* somebody merges or closes an open pull request
PrChange(number, status) ==
    /\ pr_status[number] = "open"
    /\ pr_status' = [pr_status EXCEPT ![number] = status]
    /\ UNCHANGED <<blocked_on, pr_url, current_task, peer_lpc>>

\* the role and the id of the second agent, which works on task "T2"
PeerRole == "qa"

PeerAgent == agent_id(PeerRole, "T2")

\* the second agent's run_agent_loop spawns a worker on its task
PeerSpawn ==
    /\ peer_lpc = "idle"
    /\ peer_lpc' = "wait"
    /\ UNCHANGED <<blocked_on, pr_url, pr_status, current_task>>

\* that worker writes a task_complete breakpoint for its task
PeerSignal ==
    /\ peer_lpc = "wait"
    /\ peer_lpc' = "signalled"
    /\ UNCHANGED <<blocked_on, pr_url, pr_status, current_task>>

\* the second agent's loop handles the breakpoint: the TASK_COMPLETE branch
\* asks for a next task of the role and, when there is none, returns; the
\* plan is read only
PeerBreakpoint ==
    /\ peer_lpc = "signalled"
    /\ peer_lpc' = IF get_available_tasks_for_role(PeerRole) # {} THEN "wait" ELSE "done"
    /\ UNCHANGED <<blocked_on, pr_url, pr_status, current_task>>

WaitIdle ==
    /\ blocked_on = {}
    /\ pr_url = WatchedPr
    /\ pr_status = [n \in PrNumbers |-> "unknown"]
    /\ current_task = "T1"
    /\ peer_lpc = "idle"

(***************************************************************************)
(* The plan: milestones, epics and the calls that read or change the       *)
(* status of its tasks (ProjectPlan, PersonaMatcher)                       *)
(***************************************************************************)
\* the ids of the epics of the plan, in the order of plan.epics
EpicOrder == <<"E1", "E2">>

Epics == {EpicOrder[i] : i \in 1..Len(EpicOrder)}

\* "E9" is an epic id that names no epic of the plan
EpicIds == Epics \cup {"E9"}

\* "M1" is the milestone of the plan, "M9" names no milestone
MilestoneIds == {"M1", "M9"}

\* the agents that call the matcher
Claimers == {"w1", "w2"}

NoPlanCall == [op |-> "", task |-> "", agent |-> <<>>, ret |-> FALSE,
            status |-> [t \in Tasks |-> "available"],
            assigned_agent |-> [t \in Tasks |-> <<>>]]

\* ProjectPlan.get_milestone_by_id
get_milestone_by_id(milestone_id) == IF milestone_id = "M1" THEN Some("M1") ELSE None

\* [e for e in self.epics if ...] with a test that every epic passes
get_epics_for_milestone_all(milestone_id) == EpicOrder

\* ProjectPlan.get_epics_for_milestone
get_epics_for_milestone(milestone_id) ==
    IF get_milestone_by_id(milestone_id) = None
    THEN <<>>
    ELSE SelectSeq(EpicOrder, LAMBDA e : e \in epic_ids)

\* Epic.get_all_tasks: the tasks of the stories of the epic, in plan order
get_all_tasks(epic) == SelectSeq(TaskOrder, LAMBDA t : task_epic[t] = epic)

\* the inner loop of is_milestone_complete: False at the first task that is
\* not complete
RECURSIVE TasksComplete(_)
TasksComplete(tasks) ==
    IF tasks = <<>> THEN TRUE
    ELSE IF task_status[Head(tasks)] # "complete" THEN FALSE
    ELSE TasksComplete(Tail(tasks))

\* the outer loop of is_milestone_complete
RECURSIVE EpicsComplete(_)
EpicsComplete(epics) ==
    IF epics = <<>> THEN TRUE
    ELSE IF ~TasksComplete(get_all_tasks(Head(epics))) THEN FALSE
    ELSE EpicsComplete(Tail(epics))

\* ProjectPlan.is_milestone_complete
is_milestone_complete(milestone_id) == EpicsComplete(get_epics_for_milestone(milestone_id))

\* a call of is_milestone_complete, as _check_milestone_completion makes it
IsMilestoneComplete(milestone_id) ==
    /\ lastCall' = [op |-> "is_milestone_complete", task |-> milestone_id, agent |-> <<>>,
                    ret |-> is_milestone_complete(milestone_id),
                    status |-> task_status, assigned_agent |-> assigned_agent]
    /\ UNCHANGED <<epic_ids, task_epic>>

\* the value start_task returns
start_task_ret(task) == task_status[task] = "claimed"

\* the value complete_task returns
complete_task_ret(task) == task_status[task] \in {"in_progress", "claimed"}

\* a call of PersonaMatcher.claim_task with what it returned
CallClaimTask(task, agent) ==
    /\ ClaimTask(task, agent)
    /\ lastCall' = [op |-> "claim_task", task |-> task, agent |-> agent,
                    ret |-> claim_task_ret(task),
                    status |-> task_status, assigned_agent |-> assigned_agent]
    /\ UNCHANGED <<epic_ids, task_epic>>

\* a call of PersonaMatcher.start_task with what it returned
CallStartTask(task) ==
    /\ StartTask(task)
    /\ lastCall' = [op |-> "start_task", task |-> task, agent |-> <<>>,
                    ret |-> start_task_ret(task),
                    status |-> task_status, assigned_agent |-> assigned_agent]
    /\ UNCHANGED <<epic_ids, task_epic>>

\* a call of PersonaMatcher.complete_task with what it returned
CallCompleteTask(task) ==
    /\ CompleteTask(task)
    /\ lastCall' = [op |-> "complete_task", task |-> task, agent |-> <<>>,
                    ret |-> complete_task_ret(task),
                    status |-> task_status, assigned_agent |-> assigned_agent]
    /\ UNCHANGED <<epic_ids, task_epic>>

PlanIdle ==
    /\ epic_ids = {}
    /\ task_epic = [t \in Tasks |-> "E1"]
    /\ lastCall = NoPlanCall

(***************************************************************************)
(* Ordering of the tasks by dependency (PlanValidator.get_dependency_order)*)
(* The plan it is given is task_graph, as in the cycle check.              *)
(***************************************************************************)
\* the members of a list
Members(list) == {list[i] : i \in 1..Len(list)}

\* a first queue that holds every task
no_dependencies_all(graph) == PlanOrder

\* [tid for tid, deps in task_graph.items() if not deps]
no_dependencies(graph) == SelectSeq(PlanOrder, LAMBDA tid : graph[tid] = {})

\* the for loop of one turn: the tasks that depend on task_id lose it, and
\* those left with no dependency that are not in the queue join the queue.
\* "tid not in result" compares an id with Task objects and is always true.
Released(graph, task_id, rest) ==
    SelectSeq(PlanOrder, LAMBDA tid : /\ task_id \in graph[tid]
                                      /\ graph[tid] \ {task_id} = {}
                                      /\ tid \notin Members(rest))

\* the graph is built and the queue gets the tasks that have no dependency
OrderBegin ==
    /\ orderPc = "start"
    /\ deps_left' = task_graph
    /\ queue' = no_dependencies(task_graph)
    /\ order_result' = <<>>
    /\ orderPc' = "loop"

\* one turn of "while queue:"
OrderTurn ==
    /\ orderPc = "loop"
    /\ queue # <<>>
    /\ LET task_id == Head(queue)
           rest == Tail(queue)
       IN  /\ order_result' = Append(order_result, task_id)
           /\ deps_left' = [tid \in DOMAIN deps_left |-> deps_left[tid] \ {task_id}]
           /\ queue' = rest \o Released(deps_left, task_id, rest)
    /\ UNCHANGED orderPc

\* the queue is empty: return result
OrderReturn ==
    /\ orderPc = "loop"
    /\ queue = <<>>
    /\ orderPc' = "returned"
    /\ UNCHANGED <<deps_left, queue, order_result>>

OrderIdle ==
    /\ deps_left = [tid \in GraphIds |-> {}]
    /\ queue = <<>>
    /\ order_result = <<>>
    /\ orderPc = "start"

ReplayIdle == lastDone = NoCall

SignalIdle == signal_spawn = 0

\* the agents that register a callback with the notifier
Listeners == {"b", "c"}

InformIdle == informed = [l \in Listeners |-> 0]

\* the threads a watcher may start, and the writes made to the file
MaxThreads == 3

MaxVersion == 2

Threads == 1..MaxThreads

\* FileWatcher.__init__
PollIdle ==
    /\ _running = FALSE
    /\ _thread = 0
    /\ thread_pc = [t \in Threads |-> "none"]
    /\ join_pc = "idle"
    /\ file_version = 0
    /\ _last_hash = 0
    /\ current_hash = [t \in Threads |-> 0]
    /\ dispatched = [v \in 1..MaxVersion |-> 0]

LateIdle == PlanIdle /\ OrderIdle /\ ReplayIdle /\ SignalIdle /\ PollIdle /\ InformIdle

MoreIdle == CycleIdle /\ SnapIdle /\ StartIdle /\ StopIdle /\ WaitIdle /\ LateIdle

(***************************************************************************)
(* Specification of the store alone                                        *)
(***************************************************************************)
StoreInit ==
    /\ doc = EmptyDoc
    /\ torn = FALSE
    /\ lock = "free"
    /\ wr = Idle
    /\ clock = 0
    /\ agentStatus = [a \in AgentNames |-> ""]

WatchIdle ==
    /\ callbacks = {}
    /\ running = FALSE
    /\ wpc = "none"
    /\ lastHash = NoHash
    /\ curHash = NoHash
    /\ data = EmptyDoc
    /\ iterSize = 0
    /\ visited = {}
    /\ invoked = {}
    /\ raised = FALSE
    /\ again = FALSE
    /\ dirty = FALSE

SInit == StoreInit /\ WatchIdle /\ TaskIdle /\ LoopIdle /\ ProcIdle /\ MoreIdle

SCall == StoreCall(AgentNames, Texts) /\ UNCHANGED <<watchVars, elseVars>>

SEnd == StoreEnd /\ UNCHANGED <<watchVars, elseVars>>

SNext == SCall \/ SEnd

SpecStore == SInit /\ [][SNext]_vars

(***************************************************************************)
(* Specification of the notifier over a store in use                       *)
(***************************************************************************)
\* writes explored while the notifier runs
WatchWrites == 2

Outcomes == {"return", "raise"}

\* a document that already has content when the notifier is built
UsedDoc == [by |-> "b", at |-> MaxClock - WatchWrites,
            recs |-> [x \in {"b"} |-> [NewRecord EXCEPT !.mission = "m1"]]]

WInit ==
    /\ doc = UsedDoc
    /\ torn = FALSE
    /\ lock = "free"
    /\ wr = Idle
    /\ clock = MaxClock - WatchWrites
    /\ agentStatus = [a \in AgentNames |-> ""]
    /\ WatchIdle
    /\ TaskIdle
    /\ LoopIdle
    /\ ProcIdle
    /\ MoreIdle

\* the agent whose deliveries are cleared and whose record is removed
Leavers == {"b"}

WCall ==
    /\ \/ \E a \in AgentNames, m \in Missions : UpdateField(a, m)
       \/ \E a \in Leavers : ClearAdded(a)
       \/ \E a \in Leavers : RemoveAgent(a)
    /\ UNCHANGED <<watchVars, elseVars>>

WEnd ==
    /\ StoreEnd
    /\ dirty' = (dirty \/ doc' # doc)
    /\ UNCHANGED <<callbacks, running, wpc, lastHash, curHash, data, iterSize, visited,
                   invoked, raised, again>>
    /\ UNCHANGED elseVars

WRegister == (\E l \in Listeners : register(l)) /\ UNCHANGED <<storeVars, elseVars>>

WUnregister == (\E l \in Listeners : unregister(l)) /\ UNCHANGED <<storeVars, elseVars>>

WStart == start /\ UNCHANGED <<storeVars, elseVars>>

WStop == stop /\ UNCHANGED <<storeVars, elseVars>>

WThread ==
    /\ \/ Baseline
       \/ LoopTest
       \/ Poll
       \/ Read
       \/ IterAbort
       \/ \E l \in Listeners, o \in Outcomes : IterStep(l, o)
       \/ IterDone
       \/ Sleep
    /\ UNCHANGED <<storeVars, elseVars>>

WNext == WCall \/ WEnd \/ WRegister \/ WUnregister \/ WStart \/ WStop \/ WThread

SpecWatch == WInit /\ [][WNext]_vars

(***************************************************************************)
(* Specification of task claiming: direct calls of the matcher and callers *)
(* of spawn_agent, on every plan of two tasks                              *)
(***************************************************************************)
CInit ==
    /\ StoreInit
    /\ WatchIdle
    /\ task_status = [t \in Tasks |-> "available"]
    /\ assigned_agent = [t \in Tasks |-> <<>>]
    /\ dependencies \in [Tasks -> SUBSET DepIds]
    /\ \A t \in Tasks : t \notin dependencies[t]
    /\ task_lock = "free"
    /\ spawnPc = [r \in Roles |-> "idle"]
    /\ spawnTask = [r \in Roles |-> "T1"]
    /\ agents = {}
    /\ lastClaim = NoClaim
    /\ task_role \in [Tasks -> Roles]
    /\ lastQuery = NoQuery
    /\ LoopIdle
    /\ ProcIdle
    /\ MoreIdle

CClaim ==
    /\ \E t \in Tasks, w \in Direct : ClaimTask(t, agent_id(w, t))
    /\ UNCHANGED <<storeVars, watchVars, loopVars, procVars, moreVars>>

CStart == (\E t \in Tasks : StartTask(t)) /\ UNCHANGED <<storeVars, watchVars, loopVars, procVars, moreVars>>

CComplete == (\E t \in Tasks : CompleteTask(t)) /\ UNCHANGED <<storeVars, watchVars, loopVars, procVars, moreVars>>

CSpawnEnter ==
    /\ \E r \in Roles, t \in Tasks : SpawnEnter(r, t)
    /\ UNCHANGED <<storeVars, watchVars, loopVars, procVars, moreVars>>

CSpawnClaim == (\E r \in Roles : SpawnClaim(r)) /\ UNCHANGED <<storeVars, watchVars, loopVars, procVars, moreVars>>

CQuery ==
    /\ \E r \in Roles : GetAvailableTasksForRole(r)
    /\ UNCHANGED <<storeVars, watchVars, loopVars, procVars, moreVars>>

CNext == CClaim \/ CStart \/ CComplete \/ CSpawnEnter \/ CSpawnClaim \/ CQuery

SpecClaim == CInit /\ [][CNext]_vars

\* the callers of spawn_agent that have come back
Returned == {r \in Roles : spawnPc[r] \in {"spawned", "AttributeError", "AgentSpawnError"}}

\* C1: when every caller of spawn_agent has come back from an attempt on the
\* same task, which has no dependency and was not claimed by anybody else,
\* exactly one of them has spawned its agent, and the task is claimed and
\* assigned to that one
C1_ExactlyOneWinner ==
    \A t \in Tasks :
        (/\ Returned = Roles
         /\ \A r \in Roles : spawnTask[r] = t
         /\ dependencies[t] = {}
         /\ assigned_agent[t] \in {<<>>} \cup {agent_id(r, t) : r \in Roles})
        => \E winner \in Roles :
              /\ \A r \in Roles : spawnPc[r] = "spawned" <=> r = winner
              /\ task_status[t] = "claimed"
              /\ assigned_agent[t] = agent_id(winner, t)

\* C2: claim_task returns true exactly when the task is available and each of
\* its dependency ids is the id of a complete task; then the task is claimed
\* and assigned to the agent and nothing else is changed; when it returns
\* false no task is changed
C2_ClaimIffClaimable ==
    lastClaim.task \in Tasks =>
        LET t == lastClaim.task
            before == lastClaim.status
        IN  /\ lastClaim.ret <=>
                  /\ before[t] = "available"
                  /\ \A dep \in dependencies[t] : dep \in Tasks /\ before[dep] = "complete"
            /\ lastClaim.ret =>
                  /\ task_status = [before EXCEPT ![t] = "claimed"]
                  /\ assigned_agent = [lastClaim.assigned_agent EXCEPT ![t] = lastClaim.agent]
            /\ ~lastClaim.ret =>
                  /\ task_status = before
                  /\ assigned_agent = lastClaim.assigned_agent

\* a claim that succeeded on a task whose dependency is complete
C2_Witness ==
    /\ lastClaim.task = "T2"
    /\ lastClaim.ret
    /\ dependencies["T2"] = {"T1"}
    /\ task_status["T1"] = "complete"
    /\ task_status["T2"] = "claimed"

(***************************************************************************)
(* Specification of the lifecycle loop of one agent                        *)
(***************************************************************************)
LInit == StoreInit /\ WatchIdle /\ TaskIdle /\ LoopIdle /\ ProcIdle /\ MoreIdle

LRun == RunAgentLoop /\ UNCHANGED <<storeVars, watchVars, taskVars, procVars, moreVars>>

LTop == LoopTop /\ UNCHANGED <<storeVars, watchVars, taskVars, procVars, moreVars>>

LBreakpoint ==
    /\ \E next_task \in BOOLEAN : Breakpoint(next_task)
    /\ UNCHANGED <<storeVars, watchVars, taskVars, procVars, moreVars>>

LUnblock ==
    /\ \E outcome \in {"resolved", "timeout"} : Unblock(outcome)
    /\ UNCHANGED <<storeVars, watchVars, taskVars, procVars, moreVars>>

LPrMerge ==
    /\ \E merged, next_task \in BOOLEAN : PrMerge(merged, next_task)
    /\ UNCHANGED <<storeVars, watchVars, taskVars, procVars, moreVars>>

LStop == LoopStop /\ UNCHANGED <<storeVars, watchVars, taskVars, procVars, moreVars>>

LSignal ==
    /\ \E bp_type \in BreakpointTypes : WorkerSignal(bp_type)
    /\ UNCHANGED <<storeVars, watchVars, taskVars, procVars, moreVars>>

LExit == WorkerExit /\ UNCHANGED <<storeVars, watchVars, taskVars, procVars, moreVars>>

LNext == LRun \/ LTop \/ LBreakpoint \/ LUnblock \/ LPrMerge \/ LStop \/ LSignal \/ LExit

SpecLoop == LInit /\ [][LNext]_vars

\* C3: once max_retries workers in a row have ended without a breakpoint, the
\* loop spawns no further worker: it is at the test of its while loop or has
\* returned, and when it has returned the result is MAX_RETRIES and the
\* orchestrator has set the agent's lifecycle state to failed
C3_MaxRetriesIsTerminal ==
    errStreak >= max_retries =>
        /\ lpc \in {"top", "done"}
        /\ lpc = "done" => (result = "max_retries" /\ lifecycle_state = "failed")

\* C17: when run_agent_loop returns after stop() was called during the run,
\* wherever the loop was at the call, the type of its result is SHUTDOWN
C17_StopGivesShutdown ==
    [][(lpc \notin {"idle", "done"} /\ ~loop_running /\ lpc' = "done")
           => result' = "shutdown"]_vars

(***************************************************************************)
(* Specification of two agent processes and the orchestrator on one file   *)
(***************************************************************************)
PInit == StoreInit /\ WatchIdle /\ TaskIdle /\ LoopIdle /\ ProcIdle /\ MoreIdle

PBegin ==
    /\ \E p \in Procs, c \in Calls : ProcBegin(p, c)
    /\ UNCHANGED <<watchVars, taskVars, loopVars, moreVars>>

PEnd == (\E p \in Procs : ProcEnd(p)) /\ UNCHANGED <<watchVars, taskVars, loopVars, moreVars>>

PReset == Reset /\ UNCHANGED <<watchVars, taskVars, loopVars, moreVars>>

PNext == PBegin \/ PEnd \/ PReset

SpecProcs == PInit /\ [][PNext]_vars

\* the mutations that have been carried out
Carried ==
    {pdone[p] : p \in {q \in Procs : pdone[q].op \notin {"none", "JSONDecodeError"}}}
    \cup (IF resetDone THEN {ResetCall} ELSE {})

\* the documents that the calls of set S leave when run one after another
\* from document d, in every order
RECURSIVE Serial(_, _)
Serial(d, S) ==
    IF S = {} THEN {d}
    ELSE UNION {Serial(ApplyCall(d, c, 0), S \ {c}) : c \in S}

\* a document without its time stamp
Content(d) == [by |-> d.by, recs |-> d.recs]

\* C13: a call of get_available_tasks_for_role returns exactly the tasks that
\* have the role asked for, are available and have every dependency id naming
\* a complete task; so a task that depends on another is in no result while
\* that one is not complete, and is in the result of a query made once it is
C13_AvailableForRole ==
    lastQuery.role \in Roles =>
        /\ lastQuery.ret =
              {t \in Tasks :
                  /\ task_role[t] = lastQuery.role
                  /\ lastQuery.status[t] = "available"
                  /\ \A dep \in dependencies[t] :
                        dep \in Tasks /\ lastQuery.status[dep] = "complete"}
        /\ \A t \in lastQuery.ret : \A dep \in dependencies[t] :
              dep \in Tasks /\ lastQuery.status[dep] = "complete"

\* a query that returns T2 once the task it depends on is complete
C13_Witness ==
    /\ dependencies["T2"] = {"T1"}
    /\ lastQuery.role = task_role["T2"]
    /\ lastQuery.status["T1"] = "complete"
    /\ lastQuery.ret = {"T2"}

\* C11: when no call is in flight, the document is what the mutations carried
\* out by the processes and the orchestrator leave when applied one after
\* another in some order
C11_Serializable ==
    (\A p \in Procs : plock[p] = "free") =>
        (\/ \E p, q \in Procs : p # q /\ pdone[p] = pdone[q] /\ pdone[p] # NoCall
         \/ Content(doc) \in {Content(d) : d \in Serial(EmptyDoc, Carried)})

(***************************************************************************)
(* Properties of the store.  A call in flight holds the lock: doc is the   *)
(* document it read and wr.new the document it is about to leave.          *)
(***************************************************************************)
InFlight(op) == lock = "held" /\ wr.call.op = op

IsPrefix(s, t) == Len(s) <= Len(t) /\ SubSeq(t, 1, Len(s)) = s

Pending(d, R, T, q) ==
    HasAgent(d, R) /\ \E i \in 1..Len(d.recs[R].requests) : d.recs[R].requests[i] = <<T, q>>

\* C8: when T completes with description d the request q that R has pending
\* for T, R's requests no longer hold (T, q) and R's deliveries are the former
\* ones followed by the one new entry (T, d, q); when R acknowledges, R's
\* deliveries are empty
C8_RequestDeliveryAck ==
    /\ (InFlight("complete_request") /\ Pending(doc, wr.call.y, wr.call.x, wr.call.q)) =>
           LET R == wr.call.y
               T == wr.call.x
           IN  /\ wr.writes
               /\ ~Pending(wr.new, R, T, wr.call.q)
               /\ wr.new.recs[R].added =
                      Append(doc.recs[R].added, <<T, wr.call.d, wr.call.q>>)
    /\ (InFlight("clear_added") /\ HasAgent(doc, wr.call.x)) =>
           /\ wr.writes
           /\ wr.new.recs[wr.call.x].added = <<>>

\* R has had its request completed and is acknowledging the one delivery
C8_Witness ==
    /\ InFlight("clear_added")
    /\ wr.call.x = "a"
    /\ HasAgent(doc, "a")
    /\ doc.recs["a"].requests = <<>>
    /\ doc.recs["a"].added = << <<"b", "d1", "q1">> >>
    /\ wr.new.recs["a"].added = <<>>

\* C9: a completion leaves every other pending request of the requester in
\* place and in order, adds one delivery after the former ones, and leaves the
\* records of the other agents as they were; of two distinct pending requests
\* one is left after the first completion
C9_OthersStayPending ==
    (InFlight("complete_request") /\ HasAgent(doc, wr.call.y)) =>
        LET R == wr.call.y
            old == doc.recs[R]
            new == wr.new.recs[R]
            IsOther(req) == req # <<wr.call.x, wr.call.q>>
        IN  /\ SelectSeq(new.requests, IsOther) = SelectSeq(old.requests, IsOther)
            /\ \A i \in 1..Len(new.requests) : IsOther(new.requests[i])
            /\ IsPrefix(old.added, new.added)
            /\ Len(new.added) = Len(old.added) + 1
            /\ \A x \in DOMAIN doc.recs \ {R} : wr.new.recs[x] = doc.recs[x]
            /\ (Len(old.requests) = 2 /\ old.requests[1] # old.requests[2]
                   /\ Pending(doc, R, wr.call.x, wr.call.q))
                  => Len(new.requests) = 1

\* the second of two completions: one delivery is there, the last request goes
C9_Witness ==
    /\ InFlight("complete_request")
    /\ wr.call.y = "a"
    /\ HasAgent(doc, "a")
    /\ doc.recs["a"].requests = << <<"b", "q2">> >>
    /\ doc.recs["a"].added = << <<"b", "d1", "q1">> >>
    /\ wr.new.recs["a"].requests = <<>>
    /\ wr.new.recs["a"].added = << <<"b", "d1", "q1">>, <<"b", "d1", "q2">> >>

\* C10: a call other than complete_request and clear_added (and other than
\* remove_request and remove_agent, whose purpose is removal) leaves every
\* record in the document, its requests and its deliveries grown by appends
\* at most
C10_AppendOnly ==
    (lock = "held" /\ wr.writes
       /\ wr.call.op \notin {"complete_request", "clear_added",
                             "remove_request", "remove_agent"}) =>
        \A x \in DOMAIN doc.recs :
            /\ HasAgent(wr.new, x)
            /\ IsPrefix(doc.recs[x].requests, wr.new.recs[x].requests)
            /\ IsPrefix(doc.recs[x].added, wr.new.recs[x].added)

(***************************************************************************)
(* Properties of the notifier                                              *)
(***************************************************************************)
\* the for loop has been through every entry of _callbacks
Through == wpc = "iter" /\ Cardinality(callbacks) = iterSize /\ callbacks \ visited = {}

\* C4: in a dispatch the callback registered under _meta.last_updated_by of the
\* document read is never called, and when the dispatch has run through, every
\* other registered callback has been called (with updated_by and that document)
C4_AllButUpdater ==
    /\ wpc = "iter" => updated_by \notin invoked
    /\ Through => callbacks \ {updated_by} \subseteq invoked

C4_Witness ==
    /\ Through
    /\ updated_by \in callbacks
    /\ invoked = callbacks \ {updated_by}
    /\ invoked # {}

C6_RaiseIsContained ==
    /\ raised => wpc = "iter"
    /\ (Through /\ raised) => callbacks \ {updated_by} \subseteq invoked

C6_Witness ==
    /\ Through
    /\ raised
    /\ invoked = Listeners

\* C12: whenever the notifier reads the file after a fingerprint change, the
\* file holds a whole document: no writer has truncated it and not yet
\* finished writing it
C12_NoTornRead == [][(wpc = "read" /\ wpc' # "read") => ~torn]_vars

\* C7: the writes between two polls are answered by one round, in which no
\* listener is called twice and the document handed to the listeners is the
\* file as it was at the poll, after the last of those writes
C7_Coalesced ==
    invoked # {} => (Hash(data) = curHash /\ ~again)

(***************************************************************************)
(* Specification of the cycle check, on every dependency graph of three    *)
(* tasks                                                                   *)
(***************************************************************************)
VInit ==
    /\ StoreInit
    /\ WatchIdle
    /\ TaskIdle
    /\ LoopIdle
    /\ ProcIdle
    /\ task_graph \in [GraphIds -> SUBSET GraphDeps]
    /\ dfs_visited = {}
    /\ rec_stack = {}
    /\ frames = <<>>
    /\ roots = PlanOrder
    /\ cycle_errors = {}
    /\ SnapIdle
    /\ StartIdle
    /\ StopIdle
    /\ WaitIdle
    /\ LateIdle

VCheckRoot == CheckRoot /\ UNCHANGED <<storeVars, watchVars, taskVars, loopVars, procVars, snapVars, startVars, stopVars, waitVars, lateVars>>

VHasCycleDep ==
    HasCycleDep /\ UNCHANGED <<storeVars, watchVars, taskVars, loopVars, procVars, snapVars, startVars, stopVars, waitVars, lateVars>>

VHasCycleReturn ==
    HasCycleReturn /\ UNCHANGED <<storeVars, watchVars, taskVars, loopVars, procVars, snapVars, startVars, stopVars, waitVars, lateVars>>

VNext == VCheckRoot \/ VHasCycleDep \/ VHasCycleReturn

SpecCycle == VInit /\ [][VNext]_vars

\* the closed walks along the dependency edges: each id depends on the next
\* and the last id is the first
IsCycle(walk) ==
    /\ Len(walk) >= 2
    /\ walk[1] = walk[Len(walk)]
    /\ \A k \in 1..(Len(walk) - 1) : walk[k + 1] \in graph_get(walk[k])

\* the graph has a dependency cycle
Cyclic == \E n \in 2..(Len(PlanOrder) + 1) : \E walk \in [1..n -> GraphIds] : IsCycle(walk)

\* the path has a cycle of the graph in it
ContainsCycle(path) ==
    \E i, j \in DOMAIN path : i < j /\ IsCycle(SubSeq(path, i, j))

XInit ==
    /\ StoreInit
    /\ WatchIdle
    /\ TaskIdle
    /\ LoopIdle
    /\ ProcIdle
    /\ CycleIdle
    /\ snap \in ContextSnapshots
    /\ snap_data = NoDict
    /\ snap_back = NoSnapshot
    /\ snapPc = "made"
    /\ StartIdle
    /\ StopIdle
    /\ WaitIdle
    /\ LateIdle

XToDict == ToDict /\ UNCHANGED <<storeVars, watchVars, taskVars, loopVars, procVars, cycleVars, startVars, stopVars, waitVars, lateVars>>

XFromDict ==
    FromDict /\ UNCHANGED <<storeVars, watchVars, taskVars, loopVars, procVars, cycleVars, startVars, stopVars, waitVars, lateVars>>

XNext == XToDict \/ XFromDict

SpecSnap == XInit /\ [][XNext]_vars

\* C15: the snapshot that from_dict makes of s.to_dict() has the value of s in
\* every field
C15_RoundTrip ==
    snapPc = "restored" =>
        /\ DOMAIN snap_back = DOMAIN snap
        /\ \A f \in DOMAIN snap : snap_back[f] = snap[f]

\* a restored snapshot whose timestamp has microseconds and an offset, whose
\* task is None and whose spawn number is 0
C15_Witness ==
    /\ snapPc = "restored"
    /\ snap.timestamp.microsecond # 0
    /\ snap.timestamp.tzinfo = "+01:00"
    /\ snap.current_task_id = None
    /\ snap.spawn_number = 0
    /\ snap.pending_requests # <<>>

(***************************************************************************)
(* Specification of the start of the orchestrator, on every set of defects *)
(* of the plan                                                             *)
(***************************************************************************)
OInit ==
    /\ StoreInit
    /\ WatchIdle
    /\ TaskIdle
    /\ LoopIdle
    /\ ProcIdle
    /\ CycleIdle
    /\ SnapIdle
    /\ defects \in SUBSET Defects
    /\ auto_spawn \in BOOLEAN
    /\ validation = NewResult
    /\ orch_running = FALSE
    /\ startPc = "idle"
    /\ StopIdle
    /\ WaitIdle
    /\ LateIdle

OValidate ==
    /\ StartValidate
    /\ UNCHANGED <<storeVars, watchVars, taskVars, loopVars, procVars, cycleVars, snapVars, stopVars, waitVars, lateVars>>

OReset ==
    /\ StartReset
    /\ UNCHANGED <<watchVars, taskVars, loopVars, procVars, cycleVars, snapVars, stopVars, waitVars, lateVars>>

ORunning ==
    /\ StartRunning
    /\ UNCHANGED <<storeVars, watchVars, taskVars, loopVars, procVars, cycleVars, snapVars, stopVars, waitVars, lateVars>>

OSpawn ==
    /\ \E claimable \in BOOLEAN : StartSpawn(claimable)
    /\ UNCHANGED <<storeVars, watchVars, taskVars, loopVars, procVars, cycleVars, snapVars, stopVars, waitVars, lateVars>>

ONext == OValidate \/ OReset \/ ORunning \/ OSpawn

SpecStart == OInit /\ [][ONext]_vars

\* the defects that are errors: a task, story or epic dependency or a
\* milestone epic that does not exist, and a dependency cycle
ErrorDefects == {"task_dependency", "story_dependency", "epic_dependency",
                 "milestone_epic", "circular_dependency"}

\* C16: start on a plan with a defect that is an error ends at the validation:
\* the orchestrator is never marked running, the communications document is
\* never reset and no agent is registered. On a plan with no such defect,
\* whatever its warnings, the result is valid, start does not end at the
\* validation, and once it is past the reset the document is the reset one
\* and then the orchestrator is marked running.
C16_ErrorsAbortStart ==
    /\ defects \cap ErrorDefects # {} =>
          /\ ~orch_running
          /\ doc = EmptyDoc
          /\ agents = {}
          /\ startPc \in {"idle", "TypeError", "PlanValidationError"}
    /\ (defects \cap ErrorDefects = {} /\ startPc # "idle") =>
          /\ validation.is_valid
          /\ startPc \notin {"TypeError", "PlanValidationError"}
          /\ startPc # "valid" => doc.by = "orchestrator"
          /\ startPc \notin {"valid", "reset"} => orch_running

\* start ended at the validation of a plan with a dependency cycle and warnings
C16_Witness ==
    /\ defects = {"circular_dependency", "task_role", "story_blocks"}
    /\ ~validation.is_valid
    /\ startPc = "TypeError"

(***************************************************************************)
(* Specification of the stop of a started orchestrator, on every dict of   *)
(* at most three lifecycle loops                                           *)
(***************************************************************************)
RestOfStart == <<defects, auto_spawn, validation, startPc>>

TInit ==
    /\ StoreInit
    /\ WatchIdle
    /\ TaskIdle
    /\ LoopIdle
    /\ ProcIdle
    /\ CycleIdle
    /\ SnapIdle
    /\ defects = {}
    /\ auto_spawn = TRUE
    /\ validation = NewResult
    /\ orch_running = TRUE
    /\ startPc = "returned"
    /\ _agent_loops \in LoopDicts
    /\ loop_task = [a \in LoopAgents |->
                       IF \E i \in DOMAIN _agent_loops : _agent_loops[i] = a
                       THEN "created" ELSE "none"]
    /\ _processes = {}
    /\ stop_iter = NoIter
    /\ stopPc = "idle"
    /\ WaitIdle
    /\ LateIdle

TTaskStart ==
    /\ \E a \in LoopAgents : LoopTaskStart(a)
    /\ UNCHANGED <<storeVars, watchVars, taskVars, loopVars, procVars, cycleVars, snapVars,
                   RestOfStart, waitVars, lateVars>>

TTaskSpawn ==
    /\ \E a \in LoopAgents : LoopTaskSpawn(a)
    /\ UNCHANGED <<storeVars, watchVars, taskVars, loopVars, procVars, cycleVars, snapVars,
                   RestOfStart, waitVars, lateVars>>

TTaskReturn ==
    /\ \E a \in LoopAgents : LoopTaskReturn(a)
    /\ UNCHANGED <<storeVars, watchVars, taskVars, loopVars, procVars, cycleVars, snapVars,
                   RestOfStart, waitVars, lateVars>>

TStopBegin ==
    /\ StopBegin
    /\ UNCHANGED <<storeVars, watchVars, taskVars, loopVars, procVars, cycleVars, snapVars,
                   RestOfStart, waitVars, lateVars>>

TStopNext ==
    /\ StopNext
    /\ UNCHANGED <<storeVars, watchVars, taskVars, loopVars, procVars, cycleVars, snapVars,
                   RestOfStart, waitVars, lateVars>>

TStopAwait ==
    /\ StopAwait
    /\ UNCHANGED <<storeVars, watchVars, taskVars, loopVars, procVars, cycleVars, snapVars,
                   RestOfStart, waitVars, lateVars>>

TStopTerminate ==
    /\ StopTerminate
    /\ UNCHANGED <<storeVars, watchVars, taskVars, loopVars, procVars, cycleVars, snapVars,
                   RestOfStart, waitVars, lateVars>>

TNext ==
    \/ TTaskStart \/ TTaskSpawn \/ TTaskReturn
    \/ TStopBegin \/ TStopNext \/ TStopAwait \/ TStopTerminate

SpecStop == TInit /\ [][TNext]_vars

\* C18: once stop() has ended, every lifecycle loop that was started has
\* finished and no agent has a worker process in the terminal manager
C18_StopEndsEverything ==
    stopPc \in {"stopped", "RuntimeError"} =>
        /\ \A a \in LoopAgents : loop_task[a] \in {"none", "done"}
        /\ _processes = {}

(***************************************************************************)
(* Specification of the lifecycle loop of one agent with the plan whose    *)
(* tasks other agents claim and complete, and with the pull requests of    *)
(* the CI provider                                                         *)
(***************************************************************************)
BOthers == <<storeVars, watchVars, procVars, cycleVars, snapVars, startVars, stopVars, lateVars>>

\* the plan when run_agent_loop(agent, task) is called: the task it is called
\* with is claimed for the agent, as spawn_agent means to leave it
PlanAtLoopStart ==
    /\ task_status = [t \in Tasks |-> IF t = "T1" THEN "claimed" ELSE "available"]
    /\ assigned_agent = [t \in Tasks |-> IF t = "T1" THEN LoopAgent ELSE <<>>]
    /\ dependencies = [t \in Tasks |-> {}]
    /\ task_lock = "free"
    /\ spawnPc = [r \in Roles |-> "idle"]
    /\ spawnTask = [r \in Roles |-> "T1"]
    /\ agents = {LoopAgent}
    /\ lastClaim = NoClaim
    /\ task_role = [t \in Tasks |-> LoopRole]
    /\ lastQuery = NoQuery

BInit ==
    /\ StoreInit
    /\ WatchIdle
    /\ PlanAtLoopStart
    /\ LoopIdle
    /\ ProcIdle
    /\ CycleIdle
    /\ SnapIdle
    /\ StartIdle
    /\ StopIdle
    /\ LateIdle
    /\ blocked_on = {}
    /\ pr_url = WatchedPr
    /\ pr_status \in {[n \in PrNumbers |-> IF n = WatchedPr THEN st ELSE "open"] :
                          st \in {"open", "unknown"}}
    /\ current_task = "T1"
    /\ peer_lpc = "idle"

BRun == RunAgentLoop /\ UNCHANGED <<BOthers, taskVars, waitVars>>

BTop == LoopTop /\ UNCHANGED <<BOthers, taskVars, waitVars>>

BBreakpoint ==
    /\ \E ids \in SUBSET BlockerIds, number \in PrNumbers : BreakpointOf(ids, number)
    /\ UNCHANGED <<BOthers, taskVars>>

BUnblock == WaitForUnblock /\ UNCHANGED <<BOthers, taskVars>>

BPrMerge == WaitForPrMerge /\ UNCHANGED <<BOthers, taskVars>>

BStop == LoopStop /\ UNCHANGED <<BOthers, taskVars, waitVars>>

BSignal ==
    /\ \E bp_type \in BreakpointTypes : WorkerSignal(bp_type)
    /\ UNCHANGED <<BOthers, taskVars, waitVars>>

BExit == WorkerExit /\ UNCHANGED <<BOthers, taskVars, waitVars>>

BClaim ==
    /\ \E t \in Tasks, w \in Direct : ClaimTask(t, agent_id(w, t))
    /\ UNCHANGED <<BOthers, loopVars, waitVars>>

BComplete == (\E t \in Tasks : CompleteTask(t)) /\ UNCHANGED <<BOthers, loopVars, waitVars>>

BPrChange ==
    /\ \E number \in PrNumbers, status \in {"merged", "closed"} : PrChange(number, status)
    /\ UNCHANGED <<BOthers, loopVars, taskVars>>

BNext ==
    \/ BRun \/ BTop \/ BBreakpoint \/ BUnblock \/ BPrMerge \/ BStop \/ BSignal \/ BExit
    \/ BClaim \/ BComplete \/ BPrChange

SpecWaits == BInit /\ [][BNext]_vars

\* C19: the loop leaves the wait that follows a blocked breakpoint for a new
\* spawn only when every id of blocked_on is the id of a task whose status
\* is complete; otherwise it stays in the wait or returns the blocked result
C19_UnblockOnlyWhenComplete ==
    [][lpc = "unblock" =>
          /\ lpc' = "top" =>
                \A task_id \in blocked_on :
                    task_id \in Tasks /\ task_status[task_id] = "complete"
          /\ lpc' \notin {"unblock", "top"} => (lpc' = "done" /\ result' = "blocked")]_vars

\* C20: the loop leaves the wait that follows a pr_created breakpoint for the
\* next task only when the pull request of that breakpoint's pr_url is
\* merged; when it leaves the wait and that pull request is not merged, it
\* returns the PR_CREATED result
C20_NextTaskOnlyAfterMerge ==
    [][lpc = "pr" =>
          /\ lpc' = "top" => pr_status[pr_url] = "merged"
          /\ (lpc' # "pr" /\ pr_status[pr_url] # "merged") =>
                (lpc' = "done" /\ result' = "pr_created")]_vars

(***************************************************************************)
(* The worker of the agent at the spawns of the lifecycle loop             *)
(***************************************************************************)
\* C21: whenever the loop spawns a worker, the worker it spawned before for
\* the same agent is not running any more (it was terminated or has ended),
\* so that no two workers of one agent are alive together
C21_OneWorkerAlive ==
    [][(lpc = "top" /\ lpc' = "wait") => process # "running"]_vars

(***************************************************************************)
(* The task the lifecycle loop works on                                    *)
(***************************************************************************)
\* C22: while a worker spawned by the loop is awaited, the task it was
\* spawned on has left status available and is assigned to the agent of the
\* loop, so that no other agent can take it and the loop cannot select it
\* again as its next task
C22_CurrentTaskIsClaimed ==
    lpc = "wait" =>
        /\ task_status[current_task] # "available"
        /\ assigned_agent[current_task] = LoopAgent

(***************************************************************************)
(* Specification of a plan of two agents: the task "T1" of the agent whose *)
(* loop is run depends on the task "T2" of the second agent.  Nobody asks  *)
(* for a shutdown, and the scheduler lets every loop that can go on go on. *)
(***************************************************************************)
GInit ==
    /\ StoreInit
    /\ WatchIdle
    /\ task_status = [t \in Tasks |-> IF t = "T2" THEN "claimed" ELSE "available"]
    /\ assigned_agent = [t \in Tasks |-> IF t = "T2" THEN PeerAgent ELSE <<>>]
    /\ dependencies = [t \in Tasks |-> IF t = "T1" THEN {"T2"} ELSE {}]
    /\ task_lock = "free"
    /\ spawnPc = [r \in Roles |-> "idle"]
    /\ spawnTask = [r \in Roles |-> "T1"]
    /\ agents = {LoopAgent, PeerAgent}
    /\ lastClaim = NoClaim
    /\ task_role = [t \in Tasks |-> IF t = "T2" THEN PeerRole ELSE LoopRole]
    /\ lastQuery = NoQuery
    /\ LoopIdle
    /\ ProcIdle
    /\ CycleIdle
    /\ SnapIdle
    /\ StartIdle
    /\ StopIdle
    /\ LateIdle
    /\ blocked_on = {}
    /\ pr_url = WatchedPr
    /\ pr_status = [n \in PrNumbers |-> "open"]
    /\ current_task = "T1"
    /\ peer_lpc = "idle"

GPeerSpawn == PeerSpawn /\ UNCHANGED <<BOthers, taskVars, loopVars>>

GPeerSignal == PeerSignal /\ UNCHANGED <<BOthers, taskVars, loopVars>>

GPeerBreakpoint == PeerBreakpoint /\ UNCHANGED <<BOthers, taskVars, loopVars>>

\* the steps of the two loops
GLoops == BRun \/ BTop \/ BBreakpoint \/ BUnblock \/ BPrMerge \/ GPeerSpawn \/ GPeerBreakpoint

\* the steps of the workers and of the pull requests
GWorkers == BSignal \/ BExit \/ GPeerSignal \/ BPrChange

GNext == GLoops \/ GWorkers

SpecTeam == GInit /\ [][GNext]_vars /\ WF_vars(GLoops)

\* C23: an agent that waits blocked on the task "T2" resumes (its loop gets
\* back to the top, where it spawns a fresh worker) once the agent that works
\* on "T2" has signalled task_complete for it
C23_BlockedAgentResumes ==
    (lpc = "unblock" /\ blocked_on = {"T2"} /\ peer_lpc \in {"signalled", "done"})
        ~> (lpc = "top")

(***************************************************************************)
(* The lifecycle state of the agent                                        *)
(***************************************************************************)
\* the edges of the state graph of an agent
LifecycleEdges ==
    {<<"idle", "working">>, <<"working", "blocked">>, <<"working", "pr_pending">>,
     <<"working", "complete">>, <<"working", "failed">>, <<"blocked", "working">>,
     <<"pr_pending", "working">>}

\* C24: every change of the agent's lifecycle state follows an edge of the
\* state graph, and the agent is in state working whenever a worker process
\* is running for it
C24_LifecycleFollowsGraph ==
    [][/\ lifecycle_state' # lifecycle_state =>
              <<lifecycle_state, lifecycle_state'>> \in LifecycleEdges
       /\ process' = "running" => lifecycle_state' = "working"]_vars

(***************************************************************************)
(* Specification of the plan: every assignment of two tasks to two epics,  *)
(* every list of epic ids of the milestone, and agents that call the       *)
(* matcher in any order                                                    *)
(***************************************************************************)
\* the statuses a task may be loaded with
LoadedStatuses == {"available", "pr_pending", "complete"}

KOthers == <<storeVars, watchVars, loopVars, procVars, cycleVars, snapVars, startVars,
             stopVars, waitVars, orderVars, replayVars, signalVars, pollVars, informVars>>

KInit ==
    /\ StoreInit
    /\ WatchIdle
    /\ task_status \in [Tasks -> LoadedStatuses]
    /\ assigned_agent = [t \in Tasks |-> <<>>]
    /\ dependencies \in {[t \in Tasks |-> IF t = "T2" THEN deps ELSE {}] : deps \in {{}, {"T1"}}}
    /\ task_lock = "free"
    /\ spawnPc = [r \in Roles |-> "idle"]
    /\ spawnTask = [r \in Roles |-> "T1"]
    /\ agents = {}
    /\ lastClaim = NoClaim
    /\ task_role = [t \in Tasks |-> "dev"]
    /\ lastQuery = NoQuery
    /\ LoopIdle
    /\ ProcIdle
    /\ CycleIdle
    /\ SnapIdle
    /\ StartIdle
    /\ StopIdle
    /\ WaitIdle
    /\ epic_ids \in SUBSET EpicIds
    /\ task_epic \in [Tasks -> Epics]
    /\ lastCall = NoPlanCall
    /\ OrderIdle
    /\ ReplayIdle
    /\ SignalIdle
    /\ PollIdle
    /\ InformIdle

KClaim ==
    /\ \E t \in Tasks, w \in Claimers : CallClaimTask(t, agent_id(w, t))
    /\ UNCHANGED KOthers

KStart == (\E t \in Tasks : CallStartTask(t)) /\ UNCHANGED KOthers

KComplete == (\E t \in Tasks : CallCompleteTask(t)) /\ UNCHANGED KOthers

KMilestone ==
    /\ \E milestone_id \in MilestoneIds : IsMilestoneComplete(milestone_id)
    /\ UNCHANGED <<KOthers, taskVars>>

KNext == KClaim \/ KStart \/ KComplete \/ KMilestone

SpecPlan == KInit /\ [][KNext]_vars

\* the tasks of the stories of the epics that the milestone lists
TasksOfMilestone == {t \in Tasks : task_epic[t] \in epic_ids}

\* C25: is_milestone_complete of the milestone is true exactly when every
\* task of every epic listed in its epic_ids has status complete
C25_MilestoneComplete ==
    (lastCall.op = "is_milestone_complete" /\ lastCall.task = "M1") =>
        (lastCall.ret <=> \A t \in TasksOfMilestone : task_status[t] = "complete")

\* a call that returned true while a task outside the milestone was not
\* complete and the milestone had a task, brought to complete by the matcher
C25_Witness ==
    /\ lastCall.op = "is_milestone_complete"
    /\ lastCall.task = "M1"
    /\ lastCall.ret
    /\ \E t \in TasksOfMilestone : assigned_agent[t] # <<>>
    /\ \E t \in Tasks \ TasksOfMilestone : task_status[t] # "complete"

\* C26: start_task returns true and makes the task in_progress only from
\* status claimed, complete_task returns true and makes the task complete
\* only from claimed or in_progress; from every other status the call
\* returns false and leaves the task as it was
C26_StartAndCompleteGuards ==
    LET task == lastCall.task
        before == lastCall.status[task]
    IN  /\ lastCall.op = "start_task" =>
              /\ lastCall.ret <=> before = "claimed"
              /\ task_status[task] = IF before = "claimed" THEN "in_progress" ELSE before
              /\ assigned_agent = lastCall.assigned_agent
        /\ lastCall.op = "complete_task" =>
              /\ lastCall.ret <=> before \in {"claimed", "in_progress"}
              /\ task_status[task] =
                     IF before \in {"claimed", "in_progress"} THEN "complete" ELSE before
              /\ assigned_agent = lastCall.assigned_agent

\* a start_task refused on a task that is already in progress, in a plan
\* where complete_task has brought a claimed task to complete
C26_Witness ==
    /\ lastCall.op = "start_task"
    /\ ~lastCall.ret
    /\ lastCall.status[lastCall.task] = "in_progress"
    /\ task_status[lastCall.task] = "in_progress"
    /\ \E t \in Tasks : task_status[t] = "complete" /\ assigned_agent[t] # <<>>

\* the place of a status in the order available < claimed < in_progress < complete
StatusOrder == <<"available", "claimed", "in_progress", "complete">>

Rank(status) == CHOOSE i \in 1..Len(StatusOrder) : StatusOrder[i] = status

Ordered == {StatusOrder[i] : i \in 1..Len(StatusOrder)}

\* C27: under calls of claim_task, start_task and complete_task by any
\* agents, a change of a task's status goes forward in the order available,
\* claimed, in_progress, complete; a complete task stays complete, an
\* assigned_agent that is set stays what it is, and the plan keeps its tasks
C27_StatusOnlyAdvances ==
    [][/\ DOMAIN task_status' = DOMAIN task_status
       /\ \A t \in Tasks :
             /\ task_status'[t] # task_status[t] =>
                   /\ task_status[t] \in Ordered
                   /\ task_status'[t] \in Ordered
                   /\ Rank(task_status'[t]) > Rank(task_status[t])
             /\ task_status[t] = "complete" => task_status'[t] = "complete"
             /\ assigned_agent[t] # <<>> => assigned_agent'[t] = assigned_agent[t]]_vars

\* a complete task that one agent had claimed, which another agent has just
\* tried to claim and was refused
C27_Witness ==
    /\ lastCall.op = "claim_task"
    /\ ~lastCall.ret
    /\ task_status[lastCall.task] = "complete"
    /\ assigned_agent[lastCall.task] \notin {<<>>, lastCall.agent}

(***************************************************************************)
(* Specification of the dependency order, on every graph of three tasks    *)
(* whose dependencies are drawn from the three ids and an unknown id       *)
(***************************************************************************)
YOthers == <<storeVars, watchVars, taskVars, loopVars, procVars, cycleVars, snapVars,
             startVars, stopVars, waitVars, planVars, replayVars, signalVars, pollVars, informVars>>

YInit ==
    /\ StoreInit
    /\ WatchIdle
    /\ TaskIdle
    /\ LoopIdle
    /\ ProcIdle
    /\ task_graph \in [GraphIds -> SUBSET GraphDeps]
    /\ dfs_visited = {}
    /\ rec_stack = {}
    /\ frames = <<>>
    /\ roots = PlanOrder
    /\ cycle_errors = {}
    /\ SnapIdle
    /\ StartIdle
    /\ StopIdle
    /\ WaitIdle
    /\ PlanIdle
    /\ OrderIdle
    /\ ReplayIdle
    /\ SignalIdle
    /\ PollIdle
    /\ InformIdle

YBegin == OrderBegin /\ UNCHANGED YOthers

YTurn == OrderTurn /\ UNCHANGED YOthers

YReturn == OrderReturn /\ UNCHANGED YOthers

YNext == YBegin \/ YTurn \/ YReturn

SpecOrder == YInit /\ [][YNext]_vars

\* no dependency names an id that is not a task of the plan
NoDangling == \A tid \in GraphIds : task_graph[tid] \subseteq GraphIds

\* C28: in the list get_dependency_order returns, every task comes after
\* every task it depends on, the tasks that have no dependency come before
\* all others, no task comes twice, and when the plan has no cycle and no
\* dangling dependency every task of the plan is in the list
C28_DependencyOrder ==
    orderPc = "returned" =>
        /\ \A i \in 1..Len(order_result) : \A dep \in task_graph[order_result[i]] :
              \E j \in 1..(i - 1) : order_result[j] = dep
        /\ \A tid \in GraphIds : task_graph[tid] = {} => tid \in Members(order_result)
        /\ \A i, j \in 1..Len(order_result) :
              (task_graph[order_result[i]] = {} /\ task_graph[order_result[j]] # {}) => i < j
        /\ \A i, j \in 1..Len(order_result) : order_result[i] = order_result[j] => i = j
        /\ (~Cyclic /\ NoDangling) => Members(order_result) = GraphIds

\* the order of a chain: "A" depends on "B", "B" on "C", so the list is the
\* plan order reversed
C28_Witness ==
    /\ orderPc = "returned"
    /\ task_graph = [tid \in GraphIds |->
                         IF tid = "A" THEN {"B"} ELSE IF tid = "B" THEN {"C"} ELSE {}]
    /\ order_result = <<"C", "B", "A">>

(***************************************************************************)
(* The stamp of the store's mutations                                      *)
(***************************************************************************)
\* C29: every call that changes the document writes, together with the
\* change, a new _meta.last_updated and the name of the agent the call was
\* made for as _meta.last_updated_by
C29_MutationsStampMeta ==
    [][doc' # doc => (doc'.by = wr.call.x /\ doc'.at > doc.at)]_vars

(***************************************************************************)
(* Specification of the store with the memory of the call that returned    *)
(* last, so that a call made twice in a row is seen                        *)
(***************************************************************************)
\* the request texts of this specification
ReplayTexts == {"q1"}

ROthers == <<watchVars, taskVars, loopVars, procVars, cycleVars, snapVars, startVars,
             stopVars, waitVars, planVars, orderVars, signalVars, pollVars, informVars>>

RInit ==
    /\ StoreInit
    /\ WatchIdle
    /\ TaskIdle
    /\ LoopIdle
    /\ ProcIdle
    /\ MoreIdle

RCall == StoreCall(AgentNames, ReplayTexts) /\ UNCHANGED <<ROthers, lastDone>>

REnd == StoreEnd /\ lastDone' = wr.call /\ UNCHANGED ROthers

RNext == RCall \/ REnd

SpecReplay == RInit /\ [][RNext]_vars

\* the document the call in flight leaves in the file
Outcome == IF wr.writes THEN wr.new ELSE doc

\* C30: when a call is made again right after it returned, with the same
\* arguments, the second update_field, clear_added, remove_request or
\* remove_agent leaves the document as the first left it, time stamp apart,
\* and the second add_request or complete_request appends one more entry
C30_Idempotence ==
    (lock = "held" /\ wr.call = lastDone) =>
        /\ wr.call.op \in {"update_field", "clear_added", "remove_request", "remove_agent"}
              => Content(Outcome) = Content(doc)
        /\ wr.call.op = "add_request" =>
              /\ Content(Outcome) # Content(doc)
              /\ Len(Outcome.recs[wr.call.x].requests) = Len(doc.recs[wr.call.x].requests) + 1
        /\ wr.call.op = "complete_request" =>
              /\ Content(Outcome) # Content(doc)
              /\ Len(Outcome.recs[wr.call.y].added) = Len(doc.recs[wr.call.y].added) + 1

\* a remove_request made again right after it returned, on a list that
\* still holds requests
C30_Witness ==
    /\ lock = "held"
    /\ wr.call = lastDone
    /\ wr.call.op = "remove_request"
    /\ doc.by = wr.call.x
    /\ doc.recs[wr.call.x].requests # <<>>

(***************************************************************************)
(* Capture of a context snapshot (ContextBuilder.capture_snapshot), of an  *)
(* agent that has no breakpoint and no communications file, on a plan      *)
(* whose tasks have any loaded status                                      *)
(***************************************************************************)
\* the list of the task ids of a set, in plan order
ListOf(ids) == SelectSeq(TaskOrder, LAMBDA t : t \in ids)

\* the snapshot capture_snapshot returns for the task, None or a task that is
\* there, at the time now
capture_snapshot(task, now) ==
    [agent_id |-> LoopAgent,
     spawn_number |-> spawn_count,
     timestamp |-> now,
     current_task_id |-> task,
     current_task_description |-> task,
     task_status |-> IF task = None THEN None ELSE Some(task_status[task[1]]),
     completed_work |-> "",
     remaining_work |-> "",
     branch |-> "agent/dev-T1",
     recent_commits |-> <<"c1">>,
     uncommitted_files |-> <<>>,
     completed_dependencies |-> <<>>,
     pending_dependencies |-> IF task = None THEN <<>> ELSE ListOf(dependencies[task[1]]),
     breakpoint_type |-> "",
     breakpoint_reason |-> "",
     blocked_on |-> <<>>,
     pending_requests |-> <<>>,
     recent_deliveries |-> <<>>,
     retry_count |-> retry_count,
     previous_error |-> ""]

\* snapshot = self.context_builder.capture_snapshot(agent, task)
CaptureSnapshot(task, now) ==
    /\ snap' = capture_snapshot(task, now)
    /\ snapPc' = "made"
    /\ UNCHANGED <<snap_data, snap_back>>

DOthers == <<storeVars, watchVars, loopVars, procVars, cycleVars, startVars, stopVars,
             waitVars, orderVars, replayVars, signalVars, pollVars, informVars>>

DInit ==
    /\ StoreInit
    /\ WatchIdle
    /\ task_status \in [Tasks -> LoadedStatuses]
    /\ assigned_agent = [t \in Tasks |-> <<>>]
    /\ dependencies \in {[t \in Tasks |-> IF t = "T2" THEN deps ELSE {}] : deps \in {{}, {"T1"}}}
    /\ task_lock = "free"
    /\ spawnPc = [r \in Roles |-> "idle"]
    /\ spawnTask = [r \in Roles |-> "T1"]
    /\ agents = {}
    /\ lastClaim = NoClaim
    /\ task_role = [t \in Tasks |-> "dev"]
    /\ lastQuery = NoQuery
    /\ LoopIdle
    /\ ProcIdle
    /\ CycleIdle
    /\ SnapIdle
    /\ StartIdle
    /\ StopIdle
    /\ WaitIdle
    /\ LateIdle

DCapture ==
    /\ \E task \in {None} \cup {Some(t) : t \in Tasks},
          now \in {d \in Datetimes : d.tzinfo = "naive"} : CaptureSnapshot(task, now)
    /\ UNCHANGED <<DOthers, taskVars, planVars>>

DComplete == (\E t \in Tasks : CallCompleteTask(t)) /\ UNCHANGED <<DOthers, snapVars>>

DNext == DCapture \/ DComplete

SpecCapture == DInit /\ [][DNext]_vars

\* C31: a snapshot captured for a task has in completed_dependencies exactly
\* the dependency ids of the task whose task is complete, and in
\* pending_dependencies exactly the other dependency ids of the task
C31_DependenciesPartitioned ==
    [][(snapPc' = "made" /\ snap'.current_task_id # None) =>
          LET task == snap'.current_task_id[1]
              done == {d \in dependencies[task] : task_status[d] = "complete"}
          IN  /\ Members(snap'.completed_dependencies) = done
              /\ Members(snap'.pending_dependencies) = dependencies[task] \ done]_vars

(***************************************************************************)
(* Specification of the lifecycle loop with the history of which worker    *)
(* wrote the breakpoint that the record of the agent holds                 *)
(***************************************************************************)
EOthers == <<storeVars, watchVars, taskVars, procVars, cycleVars, snapVars, startVars,
             stopVars, waitVars, planVars, orderVars, replayVars, pollVars, informVars>>

EInit == StoreInit /\ WatchIdle /\ TaskIdle /\ LoopIdle /\ ProcIdle /\ MoreIdle

ERun == RunAgentLoop /\ UNCHANGED <<EOthers, signal_spawn>>

ETop == LoopTop /\ UNCHANGED <<EOthers, signal_spawn>>

EBreakpoint ==
    /\ \E next_task \in BOOLEAN : Breakpoint(next_task)
    /\ UNCHANGED <<EOthers, signal_spawn>>

EUnblock ==
    /\ \E outcome \in {"resolved", "timeout"} : Unblock(outcome)
    /\ UNCHANGED <<EOthers, signal_spawn>>

EPrMerge ==
    /\ \E merged, next_task \in BOOLEAN : PrMerge(merged, next_task)
    /\ UNCHANGED <<EOthers, signal_spawn>>

EStop == LoopStop /\ UNCHANGED <<EOthers, signal_spawn>>

\* the worker of the current spawn writes its breakpoint
ESignal ==
    /\ \E bp_type \in BreakpointTypes : WorkerSignal(bp_type)
    /\ signal_spawn' = spawn_count
    /\ UNCHANGED EOthers

EExit == WorkerExit /\ UNCHANGED <<EOthers, signal_spawn>>

ENext == ERun \/ ETop \/ EBreakpoint \/ EUnblock \/ EPrMerge \/ EStop \/ ESignal \/ EExit

SpecFresh == EInit /\ [][ENext]_vars

\* C32: when _wait_for_breakpoint returns a result made of the breakpoint of
\* the record, that breakpoint was written by the worker spawned in the same
\* iteration of the loop
C32_FreshBreakpoint ==
    [][(lpc = "wait" /\ lpc' # "wait" /\ loop_running /\ signalled # "none")
          => signal_spawn = spawn_count]_vars

C34_BlockedWaitReturnsBlocked ==
    [][(/\ lpc = "unblock"
        /\ lpc' # "unblock"
        /\ \E b \in blocked_on : ~(b \in Tasks /\ task_status[b] = "complete")) =>
          /\ lpc' = "done"
          /\ result' = "blocked"
          /\ process' = "none"]_vars

\* C35: a complete_request call writes a document in which the requester
\* has a record whose added list is the one it had (empty when it had no
\* record) with the one delivery <<completer, description, original>>
\* appended, whether or not the request was pending, and whose requests are
\* the ones it had, in their order, without any <<completer, original>>
C35_CompletionAppends ==
    (lock = "held" /\ wr.call.op = "complete_request") =>
        LET c == wr.call
            before == IF HasAgent(doc, c.y) THEN doc.recs[c.y] ELSE NewRecord
        IN  /\ wr.writes
            /\ HasAgent(wr.new, c.y)
            /\ wr.new.recs[c.y].added = before.added \o <<(<<c.x, c.d, c.q>>)>>
            /\ wr.new.recs[c.y].requests
                  = SelectSeq(before.requests, LAMBDA req : req # <<c.x, c.q>>)
            /\ \A i \in DOMAIN wr.new.recs[c.y].requests :
                  wr.new.recs[c.y].requests[i] # <<c.x, c.q>>

\* a completion in flight of a request that nobody made, for a requester
\* that has no record yet
C35_Witness ==
    /\ lock = "held"
    /\ wr.call.op = "complete_request"
    /\ ~HasAgent(doc, wr.call.y)
    /\ doc.recs # NoRecs

\* C36: a spawn_agent call that leaves "with self._task_lock:" has either
\* claimed the task for the new agent and registered the agent, which
\* happens exactly when the task was available with every dependency
\* complete, or it raises AgentSpawnError and registers no agent
C36_SpawnOnlyOnClaim ==
    [][\A r \in Roles :
          (spawnPc[r] = "locked" /\ spawnPc'[r] # "locked") =>
              LET task == spawnTask[r]
                  agent == agent_id(r, task)
              IN  IF claim_task_ret(task)
                  THEN /\ spawnPc'[r] = "spawned"
                       /\ agents' = agents \cup {agent}
                       /\ task_status'[task] = "claimed"
                       /\ assigned_agent'[task] = agent
                  ELSE /\ spawnPc'[r] = "AgentSpawnError"
                       /\ agents' = agents
                       /\ task_status' = task_status]_vars

(***************************************************************************)
(* Specification of the lifecycle loop with a worker that publishes its    *)
(* breakpoints through the helpers of EnhancedAgentStatus and writes the   *)
(* status into its record with update_agent                                *)
(***************************************************************************)
Helpers == {"set_blocked", "set_task_complete", "set_pr_pending"}

\* the lifecycle_state and the type of the breakpoint each helper leaves in
\* the status
set_blocked == [lifecycle_state |-> "blocked", breakpoint |-> Some("blocked")]

set_task_complete == [lifecycle_state |-> "idle", breakpoint |-> Some("task_complete")]

set_pr_pending == [lifecycle_state |-> "pr_pending", breakpoint |-> Some("pr_created")]

\* EnhancedAgentStatus.to_dict after the helper
StatusAfter(helper) ==
    CASE helper = "set_blocked" -> set_blocked
      [] helper = "set_task_complete" -> set_task_complete
      [] helper = "set_pr_pending" -> set_pr_pending

\* RalphWiggumLoop._check_for_breakpoint on the record of the agent
_check_for_breakpoint(agent_data) ==
    IF agent_data.lifecycle_state \in {"complete", "blocked", "pr_pending"}
       /\ agent_data.breakpoint # None
    THEN agent_data.breakpoint
    ELSE None

\* the worker calls the helper and writes the status; the loop sees of the
\* record what _check_for_breakpoint returns
HelperSignal(helper) ==
    LET breakpoint == _check_for_breakpoint(StatusAfter(helper))
    IN  WorkerSignal(IF breakpoint = None THEN "none" ELSE breakpoint[1])

HRun == RunAgentLoop /\ UNCHANGED <<EOthers, signal_spawn>>

HTop == LoopTop /\ UNCHANGED <<EOthers, signal_spawn>>

HBreakpoint ==
    /\ \E next_task \in BOOLEAN : Breakpoint(next_task)
    /\ UNCHANGED <<EOthers, signal_spawn>>

HUnblock ==
    /\ \E outcome \in {"resolved", "timeout"} : Unblock(outcome)
    /\ UNCHANGED <<EOthers, signal_spawn>>

HPrMerge ==
    /\ \E merged, next_task \in BOOLEAN : PrMerge(merged, next_task)
    /\ UNCHANGED <<EOthers, signal_spawn>>

HStop == LoopStop /\ UNCHANGED <<EOthers, signal_spawn>>

HSignal ==
    /\ \E helper \in Helpers : HelperSignal(helper)
    /\ signal_spawn' = spawn_count
    /\ UNCHANGED EOthers

HExit == WorkerExit /\ UNCHANGED <<EOthers, signal_spawn>>

HNext == HRun \/ HTop \/ HBreakpoint \/ HUnblock \/ HPrMerge \/ HStop \/ HSignal \/ HExit

SpecHelpers == EInit /\ [][HNext]_vars

\* C37: when the worker of the current spawn has published a breakpoint
\* with a helper, the result _wait_for_breakpoint returns to a running loop
\* is made of that breakpoint and is not ERROR
C37_HelperBreakpointSeen ==
    [][(lpc = "wait" /\ lpc' # "wait" /\ loop_running /\ signal_spawn = spawn_count)
          => (signalled # "none" /\ _wait_for_breakpoint # "error")]_vars

\* C38: the path of every circular-dependency error ends with an id that is
\* also earlier in the path, and each id of the path depends on the id
\* after it
C38_ErrorNamesCycle ==
    \A path \in cycle_errors :
        /\ \E i \in 1..(Len(path) - 1) : path[i] = path[Len(path)]
        /\ \A i \in 1..(Len(path) - 1) :
              path[i] \in DOMAIN task_graph /\ path[i + 1] \in task_graph[path[i]]

(***************************************************************************)
(* Threads of the change notifier: FileWatcher.start and stop called one   *)
(* after the other, the threads of _watch_loop that start() makes, and     *)
(* writes to the file                                                      *)
(***************************************************************************)
\* start(): a no-op while _running, else a new thread on _watch_loop
ThreadStart ==
    /\ join_pc = "idle"
    /\ IF _running
       THEN UNCHANGED <<_running, _thread, thread_pc>>
       ELSE \E t \in Threads :
               /\ thread_pc[t] = "none"
               /\ \A u \in 1..(t - 1) : thread_pc[u] # "none"
               /\ _running' = TRUE
               /\ _thread' = t
               /\ thread_pc' = [thread_pc EXCEPT ![t] = "baseline"]
    /\ UNCHANGED <<join_pc, file_version, _last_hash, current_hash, dispatched>>

\* stop() up to the join: self._running = False; if self._thread: join
ThreadStop ==
    /\ join_pc = "idle"
    /\ _running' = FALSE
    /\ join_pc' = IF _thread # 0 THEN "join" ELSE "idle"
    /\ UNCHANGED <<_thread, thread_pc, file_version, _last_hash, current_hash, dispatched>>

\* self._thread.join(timeout=2.0) returns: the thread has ended, or the two
\* seconds are over while the thread sleeps or is in a callback
ThreadJoin(timeout) ==
    /\ join_pc = "join"
    /\ IF timeout
       THEN thread_pc[_thread] \in {"notify", "sleep"}
       ELSE thread_pc[_thread] = "ended"
    /\ join_pc' = "idle"
    /\ UNCHANGED <<_running, _thread, thread_pc, file_version, _last_hash, current_hash,
                   dispatched>>

\* the first statement of _watch_loop: self._last_hash = get_file_hash()
ThreadBaseline(t) ==
    /\ thread_pc[t] = "baseline"
    /\ _last_hash' = file_version
    /\ thread_pc' = [thread_pc EXCEPT ![t] = "test"]
    /\ UNCHANGED <<_running, _thread, join_pc, file_version, current_hash, dispatched>>

\* the test of "while self._running", then current_hash = get_file_hash()
\* and its comparison with self._last_hash
ThreadTest(t) ==
    /\ thread_pc[t] = "test"
    /\ IF _running
       THEN /\ current_hash' = [current_hash EXCEPT ![t] = file_version]
            /\ thread_pc' = [thread_pc EXCEPT ![t] = IF file_version # _last_hash
                                                      THEN "notify" ELSE "sleep"]
       ELSE /\ thread_pc' = [thread_pc EXCEPT ![t] = "ended"]
            /\ UNCHANGED current_hash
    /\ UNCHANGED <<_running, _thread, join_pc, file_version, _last_hash, dispatched>>

\* the callbacks are called with the document, then
\* self._last_hash = current_hash
ThreadNotify(t) ==
    /\ thread_pc[t] = "notify"
    /\ dispatched' = [dispatched EXCEPT ![current_hash[t]] = @ + 1]
    /\ _last_hash' = current_hash[t]
    /\ thread_pc' = [thread_pc EXCEPT ![t] = "sleep"]
    /\ UNCHANGED <<_running, _thread, join_pc, file_version, current_hash>>

\* time.sleep(self.poll_interval) is over
ThreadSleep(t) ==
    /\ thread_pc[t] = "sleep"
    /\ thread_pc' = [thread_pc EXCEPT ![t] = "test"]
    /\ UNCHANGED <<_running, _thread, join_pc, file_version, _last_hash, current_hash,
                   dispatched>>

\* a store call writes the file
FileWrite ==
    /\ file_version < MaxVersion
    /\ file_version' = file_version + 1
    /\ UNCHANGED <<_running, _thread, thread_pc, join_pc, _last_hash, current_hash, dispatched>>

FOthers == <<storeVars, watchVars, taskVars, loopVars, procVars, cycleVars, snapVars,
             startVars, stopVars, waitVars, planVars, orderVars, replayVars, signalVars,
             informVars>>

FInit == StoreInit /\ WatchIdle /\ TaskIdle /\ LoopIdle /\ ProcIdle /\ MoreIdle

FStart == ThreadStart /\ UNCHANGED FOthers

FStop == ThreadStop /\ UNCHANGED FOthers

FJoin == (\E timeout \in BOOLEAN : ThreadJoin(timeout)) /\ UNCHANGED FOthers

FBaseline == (\E t \in Threads : ThreadBaseline(t)) /\ UNCHANGED FOthers

FTest == (\E t \in Threads : ThreadTest(t)) /\ UNCHANGED FOthers

FNotify == (\E t \in Threads : ThreadNotify(t)) /\ UNCHANGED FOthers

FSleep == (\E t \in Threads : ThreadSleep(t)) /\ UNCHANGED FOthers

FWrite == FileWrite /\ UNCHANGED FOthers

FNext == FStart \/ FStop \/ FJoin \/ FBaseline \/ FTest \/ FNotify \/ FSleep \/ FWrite

SpecThreads == FInit /\ [][FNext]_vars

\* C39: at most one thread of _watch_loop is alive, and no version of the
\* file is dispatched to the listeners more than once
C39_OnePollLoop ==
    /\ Cardinality({t \in Threads : thread_pc[t] \notin {"none", "ended"}}) <= 1
    /\ \A v \in DOMAIN dispatched : dispatched[v] <= 1

(***************************************************************************)
(* Specification of the notifier with its listeners registered and its     *)
(* thread past the baseline, agents that write the file, and the history   *)
(* of the document each listener was last called with.  The thread runs    *)
(* on and a store call that has begun ends.                                *)
(***************************************************************************)
QOthers == <<taskVars, loopVars, procVars, cycleVars, snapVars, startVars, stopVars,
             waitVars, planVars, orderVars, replayVars, signalVars, pollVars>>

QInit ==
    /\ doc = UsedDoc
    /\ torn = FALSE
    /\ lock = "free"
    /\ wr = Idle
    /\ clock = MaxClock - WatchWrites
    /\ agentStatus = [a \in AgentNames |-> ""]
    /\ callbacks = Listeners
    /\ running = TRUE
    /\ wpc = "loop"
    /\ lastHash = Hash(UsedDoc)
    /\ curHash = NoHash
    /\ data = EmptyDoc
    /\ iterSize = 0
    /\ visited = {}
    /\ invoked = {}
    /\ raised = FALSE
    /\ again = FALSE
    /\ dirty = FALSE
    /\ TaskIdle
    /\ LoopIdle
    /\ ProcIdle
    /\ MoreIdle

QCall ==
    /\ \E a \in AgentNames, m \in Missions : UpdateField(a, m)
    /\ UNCHANGED <<watchVars, QOthers, informed>>

QEnd ==
    /\ StoreEnd
    /\ dirty' = (dirty \/ doc' # doc)
    /\ UNCHANGED <<callbacks, running, wpc, lastHash, curHash, data, iterSize, visited,
                   invoked, raised, again>>
    /\ UNCHANGED <<QOthers, informed>>

QThread ==
    /\ \/ LoopTest
       \/ Poll
       \/ Read
       \/ IterDone
       \/ Sleep
    /\ UNCHANGED <<storeVars, QOthers, informed>>

\* one turn of the for loop; a callback that is called gets the document
\* the thread has read
QIter ==
    /\ \E l \in Listeners, o \in Outcomes :
          /\ IterStep(l, o)
          /\ informed' = IF Notify(l) THEN [informed EXCEPT ![l] = data.at] ELSE informed
    /\ UNCHANGED <<storeVars, QOthers>>

QNext == QCall \/ QEnd \/ QThread \/ QIter

SpecInform ==
    QInit /\ [][QNext]_vars /\ WF_vars(QThread) /\ WF_vars(QIter) /\ WF_vars(QEnd)

\* C40: after an agent has written the file while the notifier runs, the
\* callback of every listener other than that agent is at some time called
\* with a document that has the write in it
C40_EveryListenerInformed ==
    \A a \in AgentNames, l \in Listeners, k \in (MaxClock - WatchWrites + 1)..MaxClock :
        (l # a /\ doc.by = a /\ doc.at = k) ~> (informed[l] >= k)

====
